---------------------------- MODULE Spec2Model ----------------------------
(***************************************************************************)
(* A state-machine model of the ts-lox-interpreter pipeline:               *)
(*   Scanner -> Parser -> Resolver -> Interpreter, driven by Lox.run.      *)
(*                                                                         *)
(* The scanner takes one scanToken() call per step.  The parser, the       *)
(* resolver and the interpreter are recursive in the code; here each keeps *)
(* the stack k of the methods that have started and not returned, and a    *)
(* step runs the method on top up to its next call, return or throw.  A    *)
(* thrown error is a signal that leaves the stack frame by frame until a   *)
(* method with a try around the call takes it.                             *)
(***************************************************************************)
EXTENDS Integers, Sequences, FiniteSets, TLC

VARIABLES
  input,            \* the input handed to the pipeline (never changes)
  pc,               \* position of Lox.run: scan, parse, resolve, gate, interpret, done, hung
                    \* (and resolve again, for a second pass of the resolver)
  scanner,          \* Scanner fields: source, tokens, start, current, line
  parser,           \* Parser fields: tokens, current; its stack k, sig, v
  statements,       \* const statements of Lox.run: what parse() returned
  resolver,         \* Resolver fields: scopes, currentFunction, currentLoop,
                    \* currentClass; its stack k
  interp,           \* Interpreter fields: envs and objs (heap), environment, locals; out, fuel,
                    \* its stack k, sig, v, msg
  idx,              \* 1-based index of the statement interpret()'s forEach is at
  hadError,         \* Lox.hadError
  hadRuntimeError,  \* Lox.hadRuntimeError
  reports,          \* lines written by Lox.report
  runtimeErrors     \* messages written by Lox.runtimeError / the generic handler

vars == <<input, pc, scanner, parser, statements, resolver, interp, idx,
          hadError, hadRuntimeError, reports, runtimeErrors>>

-----------------------------------------------------------------------------
(* Bounds of the model *)

\* iterations of while loops a run may perform before the model takes it
\* not to end
MaxFuel == 8

\* statements after the declaration in the run-time error programs
NumStmts == 3

\* iterations of the for loops
MaxLoop == 3

\* calls of the returned closures in the counter programs
MaxCalls == 3

\* the most arguments of a call in the sources of calls
MaxArgs == 3

\* the longest text handed to the scanner alone
MaxSourceLen == 4

\* the longest token sequence, before its EOF, handed to the parser alone
MaxTokens == 4

\* the most scopes nested around the declaration in the programs that
\* declare a name inside nested scopes
MaxDepth == 3

\* the most parameters of a declaration and arguments of a call handed to
\* the parser alone; the parser's limit is 8
MaxEntries == 9

-----------------------------------------------------------------------------
(* Runtime values.  A value is a record tagged by t; numbers are rationals  *)
(* n/d in lowest terms (d = 1 for integers), which is exact for the         *)
(* arithmetic used here.                                                    *)

\* F applied to v: gives a computed value a name for the code after it
Bind(v, F(_)) == F(v)

Nil == [t |-> "nil"]
Undefined == [t |-> "undefined"]
BoolV(b) == [t |-> "bool", b |-> b]
StrV(s) == [t |-> "str", s |-> s]

Abs(x) == IF x < 0 THEN -x ELSE x

RECURSIVE Gcd(_, _)
Gcd(a, b) == IF b = 0 THEN a ELSE Gcd(b, a % b)

Sign(x) == IF x < 0 THEN -1 ELSE IF x = 0 THEN 0 ELSE 1

\* the number p/q in lowest terms with a non-negative denominator; a zero
\* denominator gives the IEEE specials: 1/0 Infinity, -1/0 -Infinity, 0/0 NaN
Rat(p, q) ==
  IF q = 0
  THEN [t |-> "num", n |-> Sign(p), d |-> 0]
  ELSE LET g == Gcd(Abs(p), Abs(q))
           s == IF q < 0 THEN -1 ELSE 1
       IN [t |-> "num", n |-> (s * p) \div g, d |-> (s * q) \div g]

NumV(n) == [t |-> "num", n |-> n, d |-> 1]

IsNaN(v) == v.t = "num" /\ v.d = 0 /\ v.n = 0

\* JavaScript's === on the values of the model (NaN equals nothing)
StrictEquals(a, b) == a.t = b.t /\ a = b /\ ~IsNaN(a)

-----------------------------------------------------------------------------
(* Map<string, any>: an insertion-ordered list of <<key, value>> pairs *)

EmptyMap == <<>>

MapHas(m, k) == \E i \in 1..Len(m) : m[i][1] = k

MapIndex(m, k) == CHOOSE i \in 1..Len(m) : m[i][1] = k

\* Map.get: undefined when the key is absent
MapGet(m, k) == IF MapHas(m, k) THEN m[MapIndex(m, k)][2] ELSE Undefined

MapSet(m, k, v) ==
  IF MapHas(m, k)
  THEN LET i == MapIndex(m, k)
       IN SubSeq(m, 1, i - 1) \o <<<<k, v>>>> \o SubSeq(m, i + 1, Len(m))
  ELSE Append(m, <<k, v>>)

-----------------------------------------------------------------------------
(* Tokens and syntax trees.  A node is a record tagged by kind.  Variable   *)
(* and Assign nodes carry id, the identity of the node object, which is     *)
(* what the interpreter's locals map is keyed by.                           *)

Token(type, lexeme, literal, line) ==
  [type |-> type, lexeme |-> lexeme, literal |-> literal, line |-> line]

\* a token of the given type on line 1, for trees that are built directly
Tok(type, lexeme) == Token(type, lexeme, Nil, 1)
Name(lexeme) == Tok("IDENTIFIER", lexeme)

\* null and undefined where a node is expected
Null == [kind |-> "null"]
Undef == [kind |-> "undefined"]

Literal(value) == [kind |-> "Literal", value |-> value]
Grouping(expression) == [kind |-> "Grouping", expression |-> expression]
Unary(operator, right) == [kind |-> "Unary", operator |-> operator, right |-> right]
Binary(left, operator, right) ==
  [kind |-> "Binary", left |-> left, operator |-> operator, right |-> right]
Logical(left, operator, right) ==
  [kind |-> "Logical", left |-> left, operator |-> operator, right |-> right]
Variable(id, name) == [kind |-> "Variable", id |-> id, name |-> name]
Assign(id, name, operator, value) ==
  [kind |-> "Assign", id |-> id, name |-> name, operator |-> operator, value |-> value]
Call(callee, paren, args) ==
  [kind |-> "Call", callee |-> callee, paren |-> paren, args |-> args]

GetExpr(object, name) == [kind |-> "Get", object |-> object, name |-> name]
SetExpr(object, name, value) ==
  [kind |-> "Set", object |-> object, name |-> name, value |-> value]
ThisExpr(id, keyword) == [kind |-> "This", id |-> id, keyword |-> keyword]

ExpressionStmt(expression) == [kind |-> "Expression", expression |-> expression]
PrintStmt(expression) == [kind |-> "Print", expression |-> expression]
VarStmt(name, initializer) == [kind |-> "Var", name |-> name, initializer |-> initializer]
BlockStmt(stmts) == [kind |-> "Block", statements |-> stmts]
IfStmt(condition, thenBranch, elseBranch) ==
  [kind |-> "If", condition |-> condition, thenBranch |-> thenBranch,
   elseBranch |-> elseBranch]
WhileStmt(condition, body) == [kind |-> "While", condition |-> condition, body |-> body]
BreakStmt(keyword) == [kind |-> "Break", keyword |-> keyword]
ContinueStmt(keyword) == [kind |-> "Continue", keyword |-> keyword]
ReturnStmt(keyword, value) == [kind |-> "Return", keyword |-> keyword, value |-> value]
\* Stmt.Class: methods is a sequence of Stmt.Function
ClassStmt(name, methods) == [kind |-> "Class", name |-> name, methods |-> methods]
\* Stmt.Function; the name, params and body are those of the Expr.Function
\* it wraps (stmt.expression), which the model does not keep as a separate node
FunctionStmt(name, params, body) ==
  [kind |-> "Function", name |-> name, params |-> params, body |-> body]

-----------------------------------------------------------------------------
(* Environment: the heap envs is the sequence of all Environment objects    *)
(* created so far; an Environment is named by its index, 0 is null.         *)

NewEnvironment(enclosing) == [enclosing |-> enclosing, values |-> EmptyMap]

RECURSIVE Environment_get(_, _, _)
\* [found, value]: found = FALSE is the thrown 'Undefined variable' error
Environment_get(envs, e, varToken) ==
  IF MapHas(envs[e].values, varToken.lexeme)
  THEN [found |-> TRUE, value |-> MapGet(envs[e].values, varToken.lexeme)]
  ELSE IF envs[e].enclosing # 0
       THEN Environment_get(envs, envs[e].enclosing, varToken)
       ELSE [found |-> FALSE, value |-> Undefined]

RECURSIVE Environment_assign(_, _, _, _)
\* [found, envs]: found = FALSE is the thrown 'Undefined variable' error
Environment_assign(envs, e, varToken, value) ==
  IF MapHas(envs[e].values, varToken.lexeme)
  THEN [found |-> TRUE,
        envs |-> [envs EXCEPT ![e].values = MapSet(@, varToken.lexeme, value)]]
  ELSE IF envs[e].enclosing # 0
       THEN Environment_assign(envs, envs[e].enclosing, varToken, value)
       ELSE [found |-> FALSE, envs |-> envs]

Environment_define(envs, e, name, value) ==
  [envs EXCEPT ![e].values = MapSet(@, name, value)]

RECURSIVE Environment_ancestor(_, _, _)
\* 0 when the chain is shorter than distance (environment becomes null)
Environment_ancestor(envs, e, distance) ==
  IF distance = 0 \/ e = 0 THEN e
  ELSE Environment_ancestor(envs, envs[e].enclosing, distance - 1)

\* [ok, value]: ok = FALSE is the TypeError of reading .values of null
Environment_getAt(envs, e, distance, name) ==
  LET a == Environment_ancestor(envs, e, distance)
  IN IF a = 0 THEN [ok |-> FALSE, value |-> Undefined]
     ELSE [ok |-> TRUE, value |-> MapGet(envs[a].values, name)]

Environment_assignAt(envs, e, distance, name, value) ==
  LET a == Environment_ancestor(envs, e, distance)
  IN IF a = 0 THEN [ok |-> FALSE, envs |-> envs]
     ELSE [ok |-> TRUE,
           envs |-> [envs EXCEPT ![a].values = MapSet(@, name.lexeme, value)]]

-----------------------------------------------------------------------------
(* JavaScript arithmetic and conversions on the values of the model *)

NumAdd(a, b) == Rat(a.n * b.d + b.n * a.d, a.d * b.d)
NumSub(a, b) == Rat(a.n * b.d - b.n * a.d, a.d * b.d)
NumMul(a, b) == Rat(a.n * b.n, a.d * b.d)
NumDiv(a, b) == Rat(a.n * b.d * Sign(b.n), a.d * Abs(b.n))
NumNeg(a) == [a EXCEPT !.n = -a.n]
NumLess(a, b) ==
  IF a.d = 0 /\ b.d = 0
  THEN a.n # 0 /\ b.n # 0 /\ a.n < b.n
  ELSE a.n * b.d < b.n * a.d
NumLessEq(a, b) == NumLess(a, b) \/ (a = b /\ ~IsNaN(a))
IsInteger(a) == a.t = "num" /\ a.d = 1

\* the integer part of a finite number, rounding toward zero
Trunc(a) == Sign(a.n) * (Abs(a.n) \div a.d)

\* JavaScript's % (the result takes the sign of the dividend)
NumRem(a, b) ==
  IF a.d = 0 \/ (b.d = 0 /\ b.n = 0) \/ b.n = 0 THEN Rat(0, 0)
  ELSE IF b.d = 0 THEN a
  ELSE NumSub(a, NumMul(b, NumV(Trunc(NumDiv(a, b)))))

RECURSIVE IntPow(_, _)
IntPow(a, k) == IF k = 0 THEN NumV(1) ELSE NumMul(a, IntPow(a, k - 1))

\* JavaScript's ** for an integer exponent; any other exponent is kept as an
\* opaque number, which no operation of the model accepts
NumPow(a, b) ==
  IF IsInteger(b) /\ a.d # 0
  THEN IF b.n >= 0 THEN IntPow(a, b.n) ELSE NumDiv(NumV(1), IntPow(a, -b.n))
  ELSE [t |-> "num", opaque |-> <<a, b>>]

RECURSIVE FracDigits(_, _, _)
FracDigits(r, d, k) ==
  IF r = 0 \/ k = 0 THEN ""
  ELSE ToString((r * 10) \div d) \o FracDigits((r * 10) % d, d, k - 1)

\* Number.prototype.toString (fractions are cut after 16 digits)
NumToString(a) ==
  IF a.d = 0
  THEN IF a.n = 0 THEN "NaN" ELSE IF a.n > 0 THEN "Infinity" ELSE "-Infinity"
  ELSE IF a.d = 1 THEN ToString(a.n)
  ELSE (IF a.n < 0 THEN "-" ELSE "") \o ToString(Abs(a.n) \div a.d) \o "."
       \o FracDigits(Abs(a.n) % a.d, a.d, 16)

\* String(v), the conversion of a template literal
JsToString(v) ==
  CASE v.t = "nil" -> "null"
    [] v.t = "undefined" -> "undefined"
    [] v.t = "bool" -> IF v.b THEN "true" ELSE "false"
    [] v.t = "num" -> NumToString(v)
    [] v.t = "str" -> v.s
    [] v.t = "fn" -> "<fn " \o v.declaration.name.lexeme \o ">"
    [] v.t = "class" -> "<class " \o v.name \o ">"
    [] v.t = "instance" -> "<instance of " \o v.klass \o ">"
    [] OTHER -> "[object Object]"

\* Number(v); the strings of the model are the empty string and
\* non-numeric text
JsToNumber(v) ==
  CASE v.t = "nil" -> NumV(0)
    [] v.t = "bool" -> IF v.b THEN NumV(1) ELSE NumV(0)
    [] v.t = "num" -> v
    [] v.t = "str" -> IF v.s = "" THEN NumV(0) ELSE Rat(0, 0)
    [] OTHER -> Rat(0, 0)

IsPrimitive(v) == v.t \in {"nil", "undefined", "bool", "num", "str"}

\* JavaScript's binary + on two values
JsPlus(a, b) ==
  IF a.t = "str" \/ b.t = "str" \/ ~IsPrimitive(a) \/ ~IsPrimitive(b)
  THEN StrV(JsToString(a) \o JsToString(b))
  ELSE NumAdd(JsToNumber(a), JsToNumber(b))

JsMinus(a, b) == NumSub(JsToNumber(a), JsToNumber(b))
JsTimes(a, b) == NumMul(JsToNumber(a), JsToNumber(b))
JsDivide(a, b) == NumDiv(JsToNumber(a), JsToNumber(b))

-----------------------------------------------------------------------------
(* Interpreter.  The interpreter state s is the record                      *)
(*   envs: the Environment heap, environment: the current environment,      *)
(*   locals: the resolver's map from node id to distance,                   *)
(*   objs: the LoxInstance objects made so far,                             *)
(*   out: the lines printed by print statements,                            *)
(*   fuel: loop iterations left before the run counts as non-terminating.   *)
(*   k: the stack of the methods that have started and not returned,       *)
(*   sig: Normal, or the error on its way up the stack (Return, Break,      *)
(*        Continue, RuntimeError, TypeError; Hang when the fuel ran out),   *)
(*   v: the value the last method returned, or the thrown Return's value,   *)
(*   msg: the thrown error's message.                                       *)
(* A method takes one step at a time: it runs up to the next call of        *)
(* evaluate() or execute(), and goes on when that call has returned.        *)

Globals == 1

\* the frame of a method that has started: fn names the method (a visitor is
\* named by the kind of its node), at is the place reached in its body, node
\* and tmp are its argument and the values it holds
Frame(fn, node, tmp) == [fn |-> fn, at |-> 0, node |-> node, tmp |-> tmp]
Top(s) == s.k[Len(s.k)]
Push(s, frame) == [s EXCEPT !.k = Append(@, frame)]
Pop(s) == [s EXCEPT !.k = SubSeq(@, 1, Len(@) - 1)]
\* the running method goes on at place at
Goto(s, at) == [s EXCEPT !.k[Len(s.k)].at = at]
\* the running method keeps x
Keep(s, x) == [s EXCEPT !.k[Len(s.k)].tmp = Append(@, x)]
\* the running method calls fn and goes on at place at when it returns
Invoke(s, fn, node, tmp, at) == Push(Goto(s, at), Frame(fn, node, tmp))

\* return v;
Ok(s, v) == [Pop(s) EXCEPT !.sig = "Normal", !.v = v]
\* throw
Throw(s, sig, v, msg) == [s EXCEPT !.sig = sig, !.v = v, !.msg = msg]
RuntimeError(s, token, msg) == Throw(s, "RuntimeError", Nil, msg)
\* an error of the host (a property read on null or undefined)
TypeError(s) == Throw(s, "TypeError", Nil, "TypeError")
Hang(s) == Throw(s, "Hang", Nil, "")

LoxFunction(declaration, closure, isInitializer) ==
  [t |-> "fn", declaration |-> declaration, closure |-> closure,
   isInitializer |-> isInitializer]

\* new LoxClass(name, methods): methods is a Map from name to LoxFunction
LoxClass(name, methods) == [t |-> "class", name |-> name, methods |-> methods]

\* a reference to the LoxInstance objs[ref]; klass is the name of its class
\* (the class itself is objs[ref].klass)
InstanceRef(ref, klass) == [t |-> "instance", ref |-> ref, klass |-> klass]

\* new LoxInstance(klass)
LoxInstance(klass) == [klass |-> klass, fields |-> EmptyMap]

\* the standard library's clock
NativeTime == [t |-> "native", name |-> "time"]

IsLoxCallable(v) == v.t \in {"fn", "native", "class"}

isTruthy(object) ==
  /\ object.t # "nil"
  /\ object.t # "undefined"
  /\ ~(object.t = "bool" /\ ~object.b)
  /\ ~(object.t = "num" /\ object.n = 0 /\ object.d = 1)

\* [ok, text]: ok = FALSE is the TypeError of undefined.toString()
stringify(object) ==
  IF object.t = "nil" THEN [ok |-> TRUE, text |-> "nil"]
  ELSE IF object.t = "undefined" THEN [ok |-> FALSE, text |-> ""]
  ELSE [ok |-> TRUE, text |-> JsToString(object)]

\* s itself when the check passes
checkNumberOperand(s, operator, operand) ==
  IF operand.t = "num" THEN s
  ELSE RuntimeError(s, operator, "Operand must be a number")

checkNumberOperands(s, operator, left, right) ==
  IF left.t = "num" /\ right.t = "num" THEN s
  ELSE RuntimeError(s, operator, "Operands must be numbers")

lookupVariable(s, name, expr) ==
  IF ~MapHas(s.locals, expr.id)
  THEN Bind(Environment_get(s.envs, Globals, name), LAMBDA g :
         IF g.found THEN Ok(s, g.value)
         ELSE RuntimeError(s, name, "Undefined variable '" \o name.lexeme \o "'."))
  ELSE Bind(Environment_getAt(s.envs, s.environment,
                              MapGet(s.locals, expr.id), name.lexeme), LAMBDA g :
         IF g.ok THEN Ok(s, g.value) ELSE TypeError(s))

visitVariableExpr(s, expr) == lookupVariable(s, expr.name, expr)

\* setVariable that defines a global the assignment does not find
setVariableOrDefine(s, name, distance, value) ==
  IF ~distance.known
  THEN Ok([s EXCEPT !.envs = Environment_define(s.envs, Globals, name.lexeme, value)],
          value)
  ELSE Bind(Environment_assignAt(s.envs, s.environment, distance.d, name, value),
            LAMBDA a :
         IF a.ok THEN Ok([s EXCEPT !.envs = a.envs], value) ELSE TypeError(s))

\* distance is a record [known, d] standing for a number or undefined
setVariable(s, name, distance, value) ==
  IF ~distance.known
  THEN Bind(Environment_assign(s.envs, Globals, name, value), LAMBDA a :
         IF a.found THEN Ok([s EXCEPT !.envs = a.envs], value)
         ELSE RuntimeError(s, name, "Undefined variable '" \o name.lexeme \o "'."))
  ELSE Bind(Environment_assignAt(s.envs, s.environment, distance.d, name, value),
            LAMBDA a :
         IF a.ok THEN Ok([s EXCEPT !.envs = a.envs], value) ELSE TypeError(s))

\* the state with the variable's value in v, or with the error thrown
getVariable(s, name, distance) ==
  IF ~distance.known
  THEN Bind(Environment_get(s.envs, Globals, name), LAMBDA g :
         IF ~g.found
         THEN RuntimeError(s, name, "Undefined variable '" \o name.lexeme \o "'.")
         ELSE IF g.value.t = "undefined"
         THEN RuntimeError(s, name, "Variable is not declared.")
         ELSE [s EXCEPT !.v = g.value])
  ELSE Bind(Environment_getAt(s.envs, s.environment, distance.d, name.lexeme),
            LAMBDA g :
         IF ~g.ok THEN TypeError(s)
         ELSE IF g.value.t = "undefined"
         THEN RuntimeError(s, name, "Variable is not declared.")
         ELSE [s EXCEPT !.v = g.value])

\* this.evaluate(expr) and this.execute(stmt): accept() starts the visitor
evaluate(s, expr, at) == Invoke(s, expr.kind, expr, <<>>, at)
execute(s, stmt, at) == Invoke(s, stmt.kind, stmt, <<>>, at)

visitLiteralExpr(s, expr) == Ok(s, expr.value)

visitGroupingExpr(s, expr) ==
  IF Top(s).at = 0 THEN evaluate(s, expr.expression, 1) ELSE Ok(s, s.v)

visitFunctionExpr(s, expr) == Ok(s, LoxFunction(expr, s.environment, FALSE))

visitUnaryExpr(s, expr) ==
  IF Top(s).at = 0 THEN evaluate(s, expr.right, 1)
  ELSE CASE expr.operator.type = "MINUS" ->
              Bind(checkNumberOperand(s, expr.operator, s.v), LAMBDA chk :
                IF chk.sig # "Normal" THEN chk ELSE Ok(s, NumNeg(s.v)))
         [] expr.operator.type = "BANG" -> Ok(s, BoolV(~isTruthy(s.v)))
         [] OTHER -> Ok(s, Nil)

\* the switch of visitBinaryExpr on two evaluated operands
\* a division without the check of the divisor
DivideUnchecked(s, operator, left, right) == Ok(s, NumDiv(left, right))

\* case TT.SLASH: after its check of the operands
Divide(s, operator, left, right) ==
  IF right.n = 0 /\ right.d = 1
  THEN RuntimeError(s, operator, "Cannot divide by zero.")
  ELSE Ok(s, NumDiv(left, right))

BinaryOp(s, operator, left, right) ==
  Bind(checkNumberOperands(s, operator, left, right), LAMBDA chk :
  Bind(operator.type, LAMBDA ty :
    IF ty \in {"GREATER", "GREATER_EQUAL", "LESS", "LESS_EQUAL", "SLASH", "STAR",
               "MINUS", "PERCENT", "HAT"}
    THEN IF chk.sig # "Normal" THEN chk
         ELSE CASE ty = "GREATER" -> Ok(s, BoolV(NumLess(right, left)))
                [] ty = "GREATER_EQUAL" -> Ok(s, BoolV(NumLessEq(right, left)))
                [] ty = "LESS" -> Ok(s, BoolV(NumLess(left, right)))
                [] ty = "LESS_EQUAL" -> Ok(s, BoolV(NumLessEq(left, right)))
                [] ty = "SLASH" -> Divide(s, operator, left, right)
                [] ty = "STAR" -> Ok(s, NumMul(left, right))
                [] ty = "MINUS" -> Ok(s, NumSub(left, right))
                [] ty = "PERCENT" -> Ok(s, NumRem(left, right))
                [] ty = "HAT" -> Ok(s, NumPow(left, right))
    ELSE CASE ty = "EQUAL_EQUAL" -> Ok(s, BoolV(StrictEquals(left, right)))
           [] ty = "BANG_EQUAL" -> Ok(s, BoolV(~StrictEquals(left, right)))
           [] ty = "PLUS" ->
                IF left.t = "str" \/ right.t = "str"
                THEN Ok(s, StrV(JsToString(left) \o JsToString(right)))
                ELSE IF left.t = "num" /\ right.t = "num"
                     THEN Ok(s, NumAdd(left, right))
                     ELSE RuntimeError(s, operator,
                            "Operands must be two numbers or two strings")
           [] ty = "COMMA" -> Ok(s, right)
           [] OTHER -> Ok(s, Undefined)))

visitBinaryExpr(s, expr) ==
  CASE Top(s).at = 0 -> evaluate(s, expr.left, 1)
    \* const left is kept
    [] Top(s).at = 1 -> evaluate(Keep(s, s.v), expr.right, 2)
    [] OTHER -> BinaryOp(s, expr.operator, Top(s).tmp[1], s.v)

visitLogicalExpr(s, expr) ==
  CASE Top(s).at = 0 -> evaluate(s, expr.left, 1)
    [] Top(s).at = 1 ->
         \* case TT.OR:
         IF expr.operator.type = "OR" /\ isTruthy(s.v) THEN Ok(s, s.v)
         \* case TT.AND: (also reached by falling through from case TT.OR)
         ELSE IF expr.operator.type \in {"OR", "AND"} /\ ~isTruthy(s.v) THEN Ok(s, s.v)
         \* default: (also reached by falling through)
         ELSE evaluate(s, expr.right, 2)
    [] OTHER -> Ok(s, s.v)

\* the compound forms read the variable, combine with JavaScript's own
\* operator and write the result back
CompoundAssign(s, expr, distance, value) ==
  Bind(getVariable(s, expr.name, distance), LAMBDA cur :
    IF cur.sig # "Normal" THEN cur
    ELSE setVariable(s, expr.name, distance,
           CASE expr.operator.type = "PLUS_EQUAL" -> JsPlus(cur.v, value)
             [] expr.operator.type = "MINUS_EQUAL" -> JsMinus(cur.v, value)
             [] expr.operator.type = "STAR_EQUAL" -> JsTimes(cur.v, value)
             [] expr.operator.type = "SLASH_EQUAL" -> JsDivide(cur.v, value)))

visitAssignExpr(s, expr) ==
  IF Top(s).at = 0 THEN evaluate(s, expr.value, 1)
  ELSE Bind(IF MapHas(s.locals, expr.id)
            THEN [known |-> TRUE, d |-> MapGet(s.locals, expr.id)]
            ELSE [known |-> FALSE, d |-> 0], LAMBDA distance :
         IF expr.operator.type = "EQUAL"
         THEN setVariable(s, expr.name, distance, s.v)
         ELSE IF expr.operator.type \in {"PLUS_EQUAL", "MINUS_EQUAL", "STAR_EQUAL",
                                         "SLASH_EQUAL"}
         THEN CompoundAssign(s, expr, distance, s.v)
         ELSE Ok(s, s.v))

LoxFunction_arity(fn) == Len(fn.declaration.params)

LoxClass_arity(klass) ==
  IF MapHas(klass.methods, "init")
  THEN LoxFunction_arity(MapGet(klass.methods, "init"))
  ELSE 0

\* fn.arity() of the callee's own class
LoxCallable_arity(callee) ==
  CASE callee.t = "fn" -> LoxFunction_arity(callee)
    [] callee.t = "class" -> LoxClass_arity(callee)
    [] OTHER -> 0

\* "Inject" the parameters values inside the environment
RECURSIVE BindParams(_, _, _, _, _)
BindParams(envs, e, params, args, i) ==
  IF i > Len(params) THEN envs
  ELSE BindParams(Environment_define(envs, e, params[i].lexeme, args[i]),
                  e, params, args, i + 1)

\* executeBlock with a catch that rethrows in place of its finally: only an
\* error puts the previous environment back
executeBlockCatch(s, stmts) ==
  IF s.sig # "Normal"
  THEN [Pop(s) EXCEPT !.environment = Top(s).tmp[2]]
  ELSE IF Top(s).at = 0
  THEN Goto([Keep(s, s.environment) EXCEPT !.environment = Top(s).tmp[1]], 1)
  ELSE IF Top(s).at <= Len(stmts)
  THEN execute(s, stmts[Top(s).at], Top(s).at + 1)
  ELSE Ok(s, Nil)

\* executeBlock without its finally: an error leaves the block's environment
\* in place
executeBlockNoFinally(s, stmts) ==
  IF s.sig # "Normal"
  THEN Pop(s)
  ELSE IF Top(s).at = 0
  THEN Goto([Keep(s, s.environment) EXCEPT !.environment = Top(s).tmp[1]], 1)
  ELSE IF Top(s).at <= Len(stmts)
  THEN execute(s, stmts[Top(s).at], Top(s).at + 1)
  ELSE [Ok(s, Nil) EXCEPT !.environment = Top(s).tmp[2]]

\* executeBlock(stmts, environment): place 0 is the entry, place i >= 1
\* stands before statement i; tmp keeps environment, then previous
executeBlock(s, stmts) ==
  IF s.sig # "Normal"
  \* finally { this.environment = previous }, the error goes on
  THEN [Pop(s) EXCEPT !.environment = Top(s).tmp[2]]
  ELSE IF Top(s).at = 0
  THEN Goto([Keep(s, s.environment) EXCEPT !.environment = Top(s).tmp[1]], 1)
  ELSE IF Top(s).at <= Len(stmts)
  THEN execute(s, stmts[Top(s).at], Top(s).at + 1)
  ELSE [Ok(s, Nil) EXCEPT !.environment = Top(s).tmp[2]]

\* a call environment under the environment of the caller
CallEnvironmentOfCaller(s, fn) == NewEnvironment(s.environment)

\* const environment = new Environment(this.closure)
CallEnvironment(s, fn) == NewEnvironment(fn.closure)

\* LoxFunction.call(interpreter, args)
LoxFunction_call(s, fn, args) ==
  IF s.sig # "Normal"
  THEN IF s.sig = "Return" THEN Ok(s, s.v) ELSE Pop(s)
  ELSE IF Top(s).at = 0
  THEN Bind(Len(s.envs) + 1, LAMBDA environment :
         Invoke([s EXCEPT !.envs = BindParams(Append(s.envs, CallEnvironment(s, fn)),
                                      environment, fn.declaration.params, args, 1)],
                "executeBlock", fn.declaration.body, <<environment>>, 1))
  \* If this is the constructor, always return 'this'
  ELSE IF fn.isInitializer
  THEN Ok(s, Environment_getAt(s.envs, fn.closure, 0, "this").value)
  ELSE Ok(s, Nil)

\* LoxFunction.bind(instance): the state with the new environment made and
\* the new function in v.  The constructor's third argument is not given, so
\* isInitializer is its default, false
LoxFunction_bind(s, fn, instance) ==
  Bind(Len(s.envs) + 1, LAMBDA environment :
    [s EXCEPT !.envs = Environment_define(Append(s.envs, NewEnvironment(fn.closure)),
                                          environment, "this", instance),
              !.v = LoxFunction(fn.declaration, environment, FALSE)])

\* LoxClass.findMethod(instance, name) in v: the bound method, or null
LoxClass_findMethod(s, klass, instance, name) ==
  IF MapHas(klass.methods, name)
  THEN LoxFunction_bind(s, MapGet(klass.methods, name), instance)
  ELSE [s EXCEPT !.v = Nil]

\* a get that asks the class first: a method hides the field of its name
LoxInstance_getMethodFirst(s, instance, name) ==
  Bind(LoxClass_findMethod(s, s.objs[instance.ref].klass, instance, name.lexeme),
       LAMBDA found :
    IF found.v.t # "nil" THEN Ok(found, found.v)
    ELSE IF MapHas(s.objs[instance.ref].fields, name.lexeme)
    THEN Ok(s, MapGet(s.objs[instance.ref].fields, name.lexeme))
    ELSE RuntimeError(s, name, "Undefined property \"" \o name.lexeme \o "\"."))

\* LoxInstance.get(name), called by the method on top of the stack
LoxInstance_get(s, instance, name) ==
  IF MapHas(s.objs[instance.ref].fields, name.lexeme)
  THEN Ok(s, MapGet(s.objs[instance.ref].fields, name.lexeme))
  ELSE Bind(LoxClass_findMethod(s, s.objs[instance.ref].klass, instance, name.lexeme),
            LAMBDA found :
         IF found.v.t # "nil" THEN Ok(found, found.v)
         ELSE RuntimeError(s, name, "Undefined property \"" \o name.lexeme \o "\"."))

\* set that writes the field table of every instance of the class
LoxInstance_setShared(s, instance, name, value) ==
  [s EXCEPT !.objs = [i \in 1..Len(s.objs) |->
                        IF s.objs[i].klass = s.objs[instance.ref].klass
                        THEN [s.objs[i] EXCEPT !.fields = MapSet(@, name.lexeme, value)]
                        ELSE s.objs[i]]]

\* LoxInstance.set(name, value)
LoxInstance_set(s, instance, name, value) ==
  [s EXCEPT !.objs[instance.ref].fields = MapSet(@, name.lexeme, value)]

\* a class call that returns what init returned
LoxClass_callReturnsInit(s, klass, args) ==
  IF Top(s).at = 0
  THEN Bind(InstanceRef(Len(s.objs) + 1, klass.name), LAMBDA instance :
         Bind(Keep([s EXCEPT !.objs = Append(s.objs, LoxInstance(klass))], instance),
              LAMBDA s1 :
           IF MapHas(klass.methods, "init")
           THEN Bind(LoxFunction_bind(s1, MapGet(klass.methods, "init"), instance),
                     LAMBDA bound :
                  Invoke(bound, "LoxFunction_call", bound.v.declaration,
                         <<bound.v, args>>, 1))
           ELSE Ok(s1, instance)))
  ELSE Ok(s, s.v)

\* LoxClass.call(interpreter, args): tmp keeps the class, the arguments, then
\* the instance
LoxClass_call(s, klass, args) ==
  IF Top(s).at = 0
  THEN Bind(InstanceRef(Len(s.objs) + 1, klass.name), LAMBDA instance :
         Bind(Keep([s EXCEPT !.objs = Append(s.objs, LoxInstance(klass))], instance),
              LAMBDA s1 :
           IF MapHas(klass.methods, "init")
           THEN Bind(LoxFunction_bind(s1, MapGet(klass.methods, "init"), instance),
                     LAMBDA bound :
                  Invoke(bound, "LoxFunction_call", bound.v.declaration,
                         <<bound.v, args>>, 1))
           ELSE Ok(s1, instance)))
  \* return instance;
  ELSE Ok(s, Top(s).tmp[3])

\* fn.call(this, args); the clock's reading of the host function is not modelled
LoxCallable_call(s, callee, args, at) ==
  CASE callee.t = "fn" ->
         Invoke(s, "LoxFunction_call", callee.declaration, <<callee, args>>, at)
    [] callee.t = "class" -> Invoke(s, "LoxClass_call", Null, <<callee, args>>, at)
    [] OTHER -> [Goto(s, at) EXCEPT !.v = NumV(0)]

\* tmp keeps callee, then the arguments evaluated so far
visitCallExpr(s, expr) ==
  Bind(Top(s), LAMBDA f :
    CASE f.at = 0 -> evaluate(s, expr.callee, 1)
      [] f.at = 1 ->
           IF ~IsLoxCallable(s.v)
           THEN RuntimeError(s, expr.paren, "Can only call functions and classes.")
           ELSE Goto(Keep(s, s.v), 2)
      \* for (const arg of expr.args)
      [] f.at = 2 ->
           IF Len(f.tmp) - 1 < Len(expr.args)
           THEN evaluate(s, expr.args[Len(f.tmp)], 3)
           ELSE IF Len(f.tmp) - 1 # LoxCallable_arity(f.tmp[1])
           THEN RuntimeError(s, expr.paren,
                  "Expected " \o ToString(LoxCallable_arity(f.tmp[1]))
                  \o " arguments, but got " \o ToString(Len(f.tmp) - 1) \o ".")
           ELSE LoxCallable_call(s, f.tmp[1], SubSeq(f.tmp, 2, Len(f.tmp)), 4)
      [] f.at = 3 -> Goto(Keep(s, s.v), 2)
      [] OTHER -> Ok(s, s.v))

\* a block executed in the environment it stands in
visitBlockStmtInPlace(s, stmt) ==
  IF Top(s).at = 0
  THEN Invoke(s, "executeBlock", stmt.statements, <<s.environment>>, 1)
  ELSE Ok(s, Nil)

visitBlockStmt(s, stmt) ==
  IF Top(s).at = 0
  THEN Invoke([s EXCEPT !.envs = Append(s.envs, NewEnvironment(s.environment))],
              "executeBlock", stmt.statements, <<Len(s.envs) + 1>>, 1)
  ELSE Ok(s, Nil)

visitExpressionStmt(s, stmt) ==
  IF Top(s).at = 0 THEN evaluate(s, stmt.expression, 1) ELSE Ok(s, Nil)

RECURSIVE ClassMethods(_, _, _, _)
\* the loop of visitClassStmt from method i on
ClassMethods(methods, stmt, closure, i) ==
  IF i > Len(stmt.methods) THEN methods
  ELSE ClassMethods(MapSet(methods, stmt.methods[i].name.lexeme,
                           LoxFunction(stmt.methods[i], closure,
                                       stmt.methods[i].name.lexeme = "init")),
                    stmt, closure, i + 1)

visitClassStmt(s, stmt) ==
  Bind(Environment_define(s.envs, s.environment, stmt.name.lexeme, Nil), LAMBDA envs :
    Bind(LoxClass(stmt.name.lexeme, ClassMethods(EmptyMap, stmt, s.environment, 1)),
         LAMBDA klass :
      Ok([s EXCEPT !.envs = Environment_assign(envs, s.environment, stmt.name,
                                               klass).envs], Nil)))

visitGetExpr(s, expr) ==
  IF Top(s).at = 0 THEN evaluate(s, expr.object, 1)
  ELSE IF s.v.t = "instance" THEN LoxInstance_get(s, s.v, expr.name)
  ELSE RuntimeError(s, expr.name, "Only instances have properties")

\* tmp keeps object
visitSetExpr(s, expr) ==
  CASE Top(s).at = 0 -> evaluate(s, expr.object, 1)
    [] Top(s).at = 1 ->
         IF s.v.t = "instance" THEN evaluate(Keep(s, s.v), expr.value, 2)
         ELSE RuntimeError(s, expr.name, "Only instances have fields.")
    [] OTHER -> Ok(LoxInstance_set(s, Top(s).tmp[1], expr.name, s.v), s.v)

visitThisExpr(s, expr) == lookupVariable(s, expr.keyword, expr)

visitFunctionStmt(s, stmt) ==
  Ok([s EXCEPT !.envs = Environment_define(s.envs, s.environment, stmt.name.lexeme,
                          LoxFunction(stmt, s.environment, FALSE))], Nil)

visitIfStmt(s, stmt) ==
  CASE Top(s).at = 0 -> evaluate(s, stmt.condition, 1)
    [] Top(s).at = 1 ->
         IF isTruthy(s.v) THEN execute(s, stmt.thenBranch, 2)
         ELSE IF stmt.elseBranch.kind # "null" THEN execute(s, stmt.elseBranch, 2)
         ELSE Ok(s, Nil)
    [] OTHER -> Ok(s, Nil)

\* place 1 follows the condition, place 2 the body inside its try
visitWhileStmt(s, stmt) ==
  IF s.sig # "Normal"
  THEN IF Top(s).at = 2 /\ s.sig = "Break" THEN Ok(s, Nil)
       ELSE IF Top(s).at = 2 /\ s.sig = "Continue"
       THEN [Goto(s, 0) EXCEPT !.sig = "Normal"]
       \* not due to a "break;" or a "continue;": rethrow
       ELSE Pop(s)
  ELSE IF Top(s).at # 1 THEN evaluate(s, stmt.condition, 1)
  ELSE IF ~isTruthy(s.v) THEN Ok(s, Nil)
  ELSE IF s.fuel = 0 THEN Hang(s)
  ELSE execute([s EXCEPT !.fuel = s.fuel - 1], stmt.body, 2)

visitPrintStmt(s, stmt) ==
  IF Top(s).at = 0 THEN evaluate(s, stmt.expression, 1)
  ELSE Bind(stringify(s.v), LAMBDA str :
         IF ~str.ok THEN TypeError(s)
         ELSE Ok([s EXCEPT !.out = Append(s.out, str.text)], Nil))

visitReturnStmt(s, stmt) ==
  IF Top(s).at = 0
  THEN IF stmt.value.kind # "null" THEN evaluate(s, stmt.value, 1)
       ELSE Throw(s, "Return", Nil, "")
  ELSE Throw(s, "Return", s.v, "")

visitBreakStmt(s, stmt) == Throw(s, "Break", Nil, "")

visitContinueStmt(s, stmt) == Throw(s, "Continue", Nil, "")

visitVarStmt(s, stmt) ==
  IF Top(s).at = 0 /\ stmt.initializer.kind \notin {"null", "undefined"}
  THEN evaluate(s, stmt.initializer, 1)
  ELSE Ok([s EXCEPT !.envs = Environment_define(s.envs, s.environment,
             stmt.name.lexeme, IF Top(s).at = 0 THEN Nil ELSE s.v)], Nil)

\* one step of the interpreter: the method on top of the stack goes on, or,
\* when an error is on its way and the method has no try around the call it
\* made, is left
InterpreterStep(s) ==
  Bind(Top(s), LAMBDA f :
    IF s.sig # "Normal" /\ f.fn \notin {"executeBlock", "LoxFunction_call", "While"}
    THEN Pop(s)
    ELSE CASE f.fn = "Literal" -> visitLiteralExpr(s, f.node)
           [] f.fn = "Grouping" -> visitGroupingExpr(s, f.node)
           [] f.fn = "Unary" -> visitUnaryExpr(s, f.node)
           [] f.fn = "Binary" -> visitBinaryExpr(s, f.node)
           [] f.fn = "Logical" -> visitLogicalExpr(s, f.node)
           [] f.fn = "Variable" -> visitVariableExpr(s, f.node)
           [] f.fn = "Assign" -> visitAssignExpr(s, f.node)
           [] f.fn = "Call" -> visitCallExpr(s, f.node)
           [] f.fn = "FunctionExpr" -> visitFunctionExpr(s, f.node)
           [] f.fn = "Block" -> visitBlockStmt(s, f.node)
           [] f.fn = "Expression" -> visitExpressionStmt(s, f.node)
           [] f.fn = "Function" -> visitFunctionStmt(s, f.node)
           [] f.fn = "If" -> visitIfStmt(s, f.node)
           [] f.fn = "While" -> visitWhileStmt(s, f.node)
           [] f.fn = "Print" -> visitPrintStmt(s, f.node)
           [] f.fn = "Return" -> visitReturnStmt(s, f.node)
           [] f.fn = "Break" -> visitBreakStmt(s, f.node)
           [] f.fn = "Continue" -> visitContinueStmt(s, f.node)
           [] f.fn = "Var" -> visitVarStmt(s, f.node)
           [] f.fn = "Class" -> visitClassStmt(s, f.node)
           [] f.fn = "Get" -> visitGetExpr(s, f.node)
           [] f.fn = "Set" -> visitSetExpr(s, f.node)
           [] f.fn = "This" -> visitThisExpr(s, f.node)
           [] f.fn = "LoxClass_call" -> LoxClass_call(s, f.tmp[1], f.tmp[2])
           [] f.fn = "executeBlock" -> executeBlock(s, f.node)
           [] f.fn = "LoxFunction_call" -> LoxFunction_call(s, f.tmp[1], f.tmp[2])
           \* accept() on null or undefined
           [] OTHER -> TypeError(s))

\* new Interpreter(): globals holds the standard library
NewInterpreter ==
  [envs |-> <<[enclosing |-> 0, values |-> <<<<"time", NativeTime>>>>]>>,
   environment |-> Globals,
   locals |-> EmptyMap,
   objs |-> <<>>,
   out |-> <<>>,
   fuel |-> MaxFuel,
   k |-> <<>>, sig |-> "Normal", v |-> Nil, msg |-> ""]

-----------------------------------------------------------------------------
(* Lox's error reporting.  A component that reports carries the fields      *)
(* hadError and reports of Lox in its own state record x.                   *)

\* report() that prints and leaves hadError as it is
Lox_reportWithoutFlag(x, line, where, message) ==
  [x EXCEPT !.reports = Append(x.reports,
                          [line |-> line, where |-> where, message |-> message])]

Lox_report(x, line, where, message) ==
  [x EXCEPT !.reports = Append(x.reports,
                          [line |-> line, where |-> where, message |-> message]),
            !.hadError = TRUE]

Lox_errorAtLine(x, line, message) == Lox_report(x, line, "", message)

Lox_errorAtToken(x, token, message) ==
  IF token.type = "EOF"
  THEN Lox_report(x, token.line, " at end", message)
  ELSE Lox_report(x, token.line, " at '" \o token.lexeme \o "'", message)

-----------------------------------------------------------------------------
(* Scanner.  The source is a sequence of characters (strings of length 1);  *)
(* start and current count characters from 0 as in the code.  The scanner   *)
(* state sc is the record [source, tokens, start, current, line] with       *)
(* Lox's error state hadError, reports.                                     *)

\* the character '\0' that peek() gives at the end
NUL == "NUL"

DigitChars == <<"0", "1", "2", "3", "4", "5", "6", "7", "8", "9">>

isDigit(char) == \E i \in 1..Len(DigitChars) : DigitChars[i] = char

isAlpha(char) ==
  char \in {"a", "b", "c", "d", "e", "f", "g", "h", "i", "j", "k", "l", "m",
            "n", "o", "p", "q", "r", "s", "t", "u", "v", "w", "x", "y", "z",
            "A", "B", "C", "D", "E", "F", "G", "H", "I", "J", "K", "L", "M",
            "N", "O", "P", "Q", "R", "S", "T", "U", "V", "W", "X", "Y", "Z", "_"}

isAlphaNumeric(char) == isAlpha(char) \/ isDigit(char)

CHAR_TO_TOKEN_MAP ==
  << <<"(", "LEFT_PAREN">>, <<")", "RIGHT_PAREN">>, <<"{", "LEFT_BRACE">>,
     <<"}", "RIGHT_BRACE">>, <<",", "COMMA">>, <<".", "DOT">>, <<"-", "MINUS">>,
     <<"+", "PLUS">>, <<";", "SEMICOLON">>, <<"*", "STAR">> >>

KEYWORDS ==
  << <<"and", "AND">>, <<"class", "CLASS">>, <<"else", "ELSE">>,
     <<"false", "FALSE">>, <<"for", "FOR">>, <<"fun", "FUN">>, <<"if", "IF">>,
     <<"nil", "NIL">>, <<"or", "OR">>, <<"print", "PRINT">>,
     <<"return", "RETURN">>, <<"super", "SUPER">>, <<"this", "THIS">>,
     <<"true", "TRUE">>, <<"var", "VAR">>, <<"while", "WHILE">> >>

\* the properties every object of the host inherits: KEYWORDS[text] finds
\* them too, and gives a function of the host
ObjectPrototype ==
  {"constructor", "toString", "valueOf", "hasOwnProperty", "isPrototypeOf",
   "propertyIsEnumerable", "toLocaleString"}

\* KEYWORDS[text] || TT.IDENTIFIER
KeywordOrIdentifier(text) ==
  IF MapHas(KEYWORDS, text) THEN MapGet(KEYWORDS, text)
  ELSE IF text \in ObjectPrototype THEN "function " \o text
  ELSE "IDENTIFIER"

RECURSIVE Join(_, _, _)
\* the characters a .. b - 1 (from 0) as one string
Join(source, a, b) ==
  IF a >= b THEN "" ELSE source[a + 1] \o Join(source, a + 1, b)

Clamp(i, n) == IF i < 0 THEN 0 ELSE IF i > n THEN n ELSE i

\* source.substring(a, b)
Substring(source, a, b) ==
  Bind(Clamp(a, Len(source)), LAMBDA ca :
  Bind(Clamp(b, Len(source)), LAMBDA cb :
    IF ca <= cb THEN Join(source, ca, cb) ELSE Join(source, cb, ca)))

DigitValue(char) == (CHOOSE i \in 1..Len(DigitChars) : DigitChars[i] = char) - 1

RECURSIVE DigitsValue(_, _, _, _)
\* the decimal number that the digits a .. b - 1 write, after acc
DigitsValue(source, a, b, acc) ==
  IF a >= b THEN acc
  ELSE DigitsValue(source, a + 1, b, acc * 10 + DigitValue(source[a + 1]))

RECURSIVE Pow10(_)
Pow10(k) == IF k = 0 THEN 1 ELSE 10 * Pow10(k - 1)

\* Number.parseFloat of digits a .. b - 1 with at most one '.' among them
ParseFloat(source, a, b) ==
  IF \E i \in a..(b - 1) : source[i + 1] = "."
  THEN Bind(CHOOSE i \in a..(b - 1) : source[i + 1] = ".", LAMBDA dot :
         Rat(DigitsValue(source, dot + 1, b, DigitsValue(source, a, dot, 0)),
             Pow10(b - dot - 1)))
  ELSE NumV(DigitsValue(source, a, b, 0))

NewScanner(source, lox) ==
  [source |-> source, tokens |-> <<>>, start |-> 0, current |-> 0, line |-> 1,
   hadError |-> lox.hadError, reports |-> lox.reports]

Scanner_isAtEnd(sc) == sc.current >= Len(sc.source)

\* source[i]: undefined past the end
CharAt(sc, i) == IF i < Len(sc.source) THEN sc.source[i + 1] ELSE "undefined"

\* the state after advance(); the character it returns is CharAt(sc, sc.current)
Scanner_advance(sc) == [sc EXCEPT !.current = @ + 1]

Scanner_addToken(sc, type, literal) ==
  [sc EXCEPT !.tokens = Append(@, Token(type, Substring(sc.source, sc.start, sc.current),
                                        literal, sc.line))]

\* whether match(expected) gives true; it then advances
Scanner_matches(sc, expected) ==
  ~Scanner_isAtEnd(sc) /\ CharAt(sc, sc.current) = expected

Scanner_match(sc, expected) ==
  IF Scanner_matches(sc, expected) THEN Scanner_advance(sc) ELSE sc

Scanner_peek(sc) == IF Scanner_isAtEnd(sc) THEN NUL ELSE CharAt(sc, sc.current)

Scanner_peekNext(sc) ==
  IF sc.current + 1 >= Len(sc.source) THEN NUL ELSE CharAt(sc, sc.current + 1)

RECURSIVE SkipLine(_)
\* while (this.peek() !== '\n' && !this.isAtEnd()) this.advance()
SkipLine(sc) ==
  IF Scanner_peek(sc) # "\n" /\ ~Scanner_isAtEnd(sc)
  THEN SkipLine(Scanner_advance(sc)) ELSE sc

RECURSIVE StringBody(_)
\* the while loop of string()
StringBody(sc) ==
  IF Scanner_peek(sc) # "\"" /\ ~Scanner_isAtEnd(sc)
  THEN StringBody(Scanner_advance(
         IF Scanner_peek(sc) = "\n" THEN [sc EXCEPT !.line = @ + 1] ELSE sc))
  ELSE sc

Scanner_string(sc) ==
  Bind(StringBody(sc), LAMBDA s1 :
  Bind(IF Scanner_isAtEnd(s1)
       THEN Lox_errorAtLine(s1, s1.line, "Unterminated string.") ELSE s1, LAMBDA s2 :
  \* Advances over the closing string delimiter
  Bind(Scanner_advance(s2), LAMBDA s3 :
    Scanner_addToken(s3, "STRING",
                     StrV(Substring(s3.source, s3.start + 1, s3.current - 1))))))

RECURSIVE Digits(_)
\* while (isDigit(this.peek())) this.advance()
Digits(sc) == IF isDigit(Scanner_peek(sc)) THEN Digits(Scanner_advance(sc)) ELSE sc

Scanner_number(sc) ==
  Bind(Digits(sc), LAMBDA s1 :
  \* Consume the fractional part
  Bind(IF Scanner_peek(s1) = "." /\ isDigit(Scanner_peekNext(s1))
       THEN Digits(Scanner_advance(s1)) ELSE s1, LAMBDA s2 :
    Scanner_addToken(s2, "NUMBER", ParseFloat(s2.source, s2.start, s2.current))))

RECURSIVE AlphaNumerics(_)
AlphaNumerics(sc) ==
  IF isAlphaNumeric(Scanner_peek(sc)) THEN AlphaNumerics(Scanner_advance(sc)) ELSE sc

Scanner_identifier(sc) ==
  Bind(AlphaNumerics(sc), LAMBDA s1 :
    Scanner_addToken(s1, KeywordOrIdentifier(Substring(s1.source, s1.start, s1.current)),
                     Nil))

\* this.addToken(this.match('=') ? two : one)
OneOrTwo(sc, one, two) ==
  IF Scanner_matches(sc, "=")
  THEN Scanner_addToken(Scanner_match(sc, "="), two, Nil)
  ELSE Scanner_addToken(sc, one, Nil)

Scanner_scanToken(sc0) ==
  Bind(CharAt(sc0, sc0.current), LAMBDA char :
  Bind(Scanner_advance(sc0), LAMBDA sc :
    IF MapHas(CHAR_TO_TOKEN_MAP, char)
    THEN Scanner_addToken(sc, MapGet(CHAR_TO_TOKEN_MAP, char), Nil)
    ELSE CASE char = "!" -> OneOrTwo(sc, "BANG", "BANG_EQUAL")
           [] char = "=" -> OneOrTwo(sc, "EQUAL", "EQUAL_EQUAL")
           [] char = "<" -> OneOrTwo(sc, "LESS", "LESS_EQUAL")
           [] char = ">" -> OneOrTwo(sc, "GREATER", "GREATER_EQUAL")
           \* Handle both the division operator and single-line comments
           [] char = "/" ->
                SkipLine(IF ~Scanner_matches(sc, "/")
                         THEN Scanner_addToken(sc, "SLASH", Nil)
                         ELSE Scanner_match(sc, "/"))
           [] char = "\"" -> Scanner_string(sc)
           \* Ignore white-spaces
           [] char \in {" ", "\r", "\t"} -> sc
           \* Keep track of lines
           [] char = "\n" -> [sc EXCEPT !.line = @ + 1]
           [] OTHER ->
                IF isDigit(char) THEN Scanner_number(sc)
                ELSE IF isAlphaNumeric(char) THEN Scanner_identifier(sc)
                ELSE Lox_errorAtLine(sc, sc.line,
                                     "Unexpected character: " \o char \o ".")))

RECURSIVE ScanLoop(_)
\* scanTokens() from the state sc to its return
ScanLoop(sc) ==
  IF Scanner_isAtEnd(sc)
  THEN [sc EXCEPT !.tokens = Append(@, Token("EOF", "", Nil, sc.line))]
  ELSE ScanLoop(Scanner_scanToken([sc EXCEPT !.start = sc.current]))

\* new Scanner(source).scanTokens() with no error reported before
ScanText(source) == ScanLoop(NewScanner(source, [hadError |-> FALSE, reports |-> <<>>]))

\* one turn of the loop of scanTokens, or what follows the loop
Scanner_scanTokens(sc) ==
  IF ~Scanner_isAtEnd(sc)
  THEN Scanner_scanToken([sc EXCEPT !.start = sc.current])
  ELSE [sc EXCEPT !.tokens = Append(@, Token("EOF", "", Nil, sc.line))]

-----------------------------------------------------------------------------
(* Parser.  The parser state p is the record [tokens, current, k, sig, v]   *)
(* with Lox's error state hadError, reports; current counts tokens from 0.  *)
(* Each method of the recursive descent is a frame of k, its result comes   *)
(* back in v, and a thrown ParseError is sig = "ParseError", which unwinds  *)
(* k to the try of declaration().                                           *)

NewParser(tokens, lox) ==
  [tokens |-> tokens, current |-> 0, k |-> <<>>, sig |-> "Normal", v |-> Null,
   hadError |-> lox.hadError, reports |-> lox.reports]

Parser_peek(p) == p.tokens[p.current + 1]

Parser_previous(p) == p.tokens[p.current]

Parser_isAtEnd(p) == Parser_peek(p).type = "EOF"

Parser_check(p, type) == ~Parser_isAtEnd(p) /\ Parser_peek(p).type = type

\* the state after advance(); the token it returns is Parser_previous of it
Parser_advance(p) == IF ~Parser_isAtEnd(p) THEN [p EXCEPT !.current = @ + 1] ELSE p

\* whether match(...types) gives true; it then advances
Parser_matches(p, types) == \E type \in types : Parser_check(p, type)

Parser_match(p, types) == IF Parser_matches(p, types) THEN Parser_advance(p) ELSE p

\* reports; the ParseError it returns is thrown by the caller or dropped
Parser_error(p, token, message) == Lox_errorAtToken(p, token, message)

ThrowParseError(p) == [p EXCEPT !.sig = "ParseError"]

Parser_consume(p, type, message) ==
  IF ~Parser_check(p, type)
  THEN ThrowParseError(Parser_error(p, Parser_peek(p), message))
  ELSE Parser_advance(p)

\* the rest of a method after a call that may have thrown
Then(p, F(_)) == IF p.sig # "Normal" THEN p ELSE F(p)

\* return this.fn();
TailCall(p, fn) == Push(Pop(p), Frame(fn, Null, <<>>))

\* this.fn() with the method going on at place at
Descend(p, fn, at) == Invoke(p, fn, Null, <<>>, at)

RECURSIVE SynchronizeLoop(_)
SynchronizeLoop(p) ==
  IF Parser_isAtEnd(p) THEN p
  ELSE IF Parser_previous(p).type = "SEMICOLON" THEN p
  ELSE IF Parser_peek(p).type \in
            {"CLASS", "FUN", "VAR", "FOR", "IF", "WHILE", "PRINT", "RETURN"} THEN p
  ELSE SynchronizeLoop(Parser_advance(p))

\* synchronize() that discards nothing
Parser_synchronizeInPlace(p) == p

Parser_synchronize(p) == SynchronizeLoop(Parser_advance(p))

\* this.declaration() from parse() or block(); the frame of declaration()
\* records the position of the parser at the call, which no code reads, so
\* that the tokens a call has consumed can be counted at its return
CallDeclaration(p) == Invoke(p, "declaration", Null, <<[current |-> p.current]>>, 1)

\* the loop of parse() from its head; the frame keeps const statements
ParseLoop(p) ==
  IF ~Parser_isAtEnd(p) THEN CallDeclaration(p) ELSE Ok(p, Top(p).tmp)

Parser_parse(p) ==
  IF Top(p).at = 0 THEN ParseLoop(p) ELSE ParseLoop(Keep(p, p.v))

Parser_declaration(p) ==
  \* catch (error)
  IF p.sig = "ParseError" THEN Ok(Parser_synchronize(p), Null)
  ELSE IF Top(p).at = 1 THEN Ok(p, p.v)
  ELSE IF Parser_matches(p, {"FUN"})
  THEN Invoke(Parser_advance(p), "function", "function", <<>>, 1)
  ELSE IF Parser_matches(p, {"VAR"}) THEN Descend(Parser_advance(p), "varDeclaration", 1)
  ELSE Descend(p, "statement", 1)

\* varDeclaration from the consume of ";"; the frame keeps name
VarDeclarationEnd(p, initializer) ==
  Then(Parser_consume(p, "SEMICOLON", "Expect \";\" after variable declaration"),
       LAMBDA p1 : Ok(p1, VarStmt(Top(p).tmp[1], initializer)))

Parser_varDeclaration(p) ==
  IF Top(p).at = 0
  THEN Then(Parser_consume(p, "IDENTIFIER", "Expect variable name."), LAMBDA p1 :
         Bind(Keep(p1, Parser_previous(p1)), LAMBDA p2 :
           IF Parser_matches(p2, {"EQUAL"})
           THEN Descend(Parser_advance(p2), "expression", 1)
           ELSE VarDeclarationEnd(p2, Null)))
  ELSE VarDeclarationEnd(p, p.v)

Parser_statement(p) ==
  IF Top(p).at = 1 THEN Ok(p, BlockStmt(p.v))
  ELSE IF Parser_matches(p, {"FOR"}) THEN TailCall(Parser_advance(p), "forStatement")
  ELSE IF Parser_matches(p, {"IF"}) THEN TailCall(Parser_advance(p), "ifStatement")
  ELSE IF Parser_matches(p, {"WHILE"}) THEN TailCall(Parser_advance(p), "whileStatement")
  ELSE IF Parser_matches(p, {"PRINT"}) THEN TailCall(Parser_advance(p), "printStatement")
  ELSE IF Parser_matches(p, {"RETURN"}) THEN TailCall(Parser_advance(p), "returnStatement")
  ELSE IF Parser_matches(p, {"LEFT_BRACE"}) THEN Descend(Parser_advance(p), "block", 1)
  ELSE TailCall(p, "expressionStatement")

\* Desugaring the for loop in a while loop
DesugarFor(initializer, condition, increment, body) ==
  Bind(IF increment.kind # "null"
       THEN BlockStmt(<<body, ExpressionStmt(increment)>>)
       ELSE body, LAMBDA body1 :
    IF initializer.kind # "null"
    THEN BlockStmt(<<initializer, WhileStmt(condition, body1)>>)
    ELSE WhileStmt(condition, body1))

\* forStatement after its increment; the frame keeps initializer, condition,
\* increment
ForBody(p) ==
  Then(Parser_consume(p, "RIGHT_PAREN", "Expect \")\" after for clauses."),
       LAMBDA p1 : Descend(p1, "statement", 4))

\* forStatement after its condition
ForIncrement(p) ==
  Then(Parser_consume(p, "SEMICOLON", "Expect \";\" after loop condition."),
       LAMBDA p1 :
         IF ~Parser_check(p1, "RIGHT_PAREN") THEN Descend(p1, "expression", 3)
         ELSE ForBody(Keep(p1, Null)))

\* forStatement after its initializer
ForCondition(p) ==
  IF ~Parser_check(p, "SEMICOLON") THEN Descend(p, "expression", 2)
  ELSE ForIncrement(Keep(p, Literal(BoolV(TRUE))))

Parser_forStatement(p) ==
  CASE Top(p).at = 0 ->
         Then(Parser_consume(p, "LEFT_PAREN", "Expect \"(\" after \"for\"."),
              LAMBDA p1 :
                IF Parser_matches(p1, {"SEMICOLON"})
                THEN ForCondition(Keep(Parser_advance(p1), Null))
                ELSE IF Parser_matches(p1, {"VAR"})
                THEN Descend(Parser_advance(p1), "varDeclaration", 1)
                ELSE Descend(p1, "expressionStatement", 1))
    [] Top(p).at = 1 -> ForCondition(Keep(p, p.v))
    [] Top(p).at = 2 -> ForIncrement(Keep(p, p.v))
    [] Top(p).at = 3 -> ForBody(Keep(p, p.v))
    [] OTHER -> Ok(p, DesugarFor(Top(p).tmp[1], Top(p).tmp[2], Top(p).tmp[3], p.v))

Parser_ifStatement(p) ==
  CASE Top(p).at = 0 ->
         Then(Parser_consume(p, "LEFT_PAREN", "Expect \"(\" after \"if\"."),
              LAMBDA p1 : Descend(p1, "expression", 1))
    [] Top(p).at = 1 ->
         Then(Parser_consume(Keep(p, p.v), "RIGHT_PAREN",
                             "Expect \")\" after if condition."),
              LAMBDA p1 : Descend(p1, "statement", 2))
    [] Top(p).at = 2 ->
         IF Parser_matches(p, {"ELSE"})
         THEN Descend(Parser_advance(Keep(p, p.v)), "statement", 3)
         ELSE Ok(p, IfStmt(Top(p).tmp[1], p.v, Null))
    [] OTHER -> Ok(p, IfStmt(Top(p).tmp[1], Top(p).tmp[2], p.v))

Parser_whileStatement(p) ==
  CASE Top(p).at = 0 ->
         Then(Parser_consume(p, "LEFT_PAREN", "Expect \"(\" after \"while\"."),
              LAMBDA p1 : Descend(p1, "expression", 1))
    [] Top(p).at = 1 ->
         Then(Parser_consume(Keep(p, p.v), "RIGHT_PAREN",
                             "Expect \")\" after while loop condition."),
              LAMBDA p1 : Descend(p1, "statement", 2))
    [] OTHER -> Ok(p, WhileStmt(Top(p).tmp[1], p.v))

Parser_printStatement(p) ==
  IF Top(p).at = 0 THEN Descend(p, "expression", 1)
  ELSE Then(Parser_consume(p, "SEMICOLON", "Expect \";\" after value."),
            LAMBDA p1 : Ok(p1, PrintStmt(p.v)))

\* returnStatement from the consume of ";"; the frame keeps keyword
ReturnStatementEnd(p, value) ==
  Then(Parser_consume(p, "SEMICOLON", "Expect \";\" after return value."),
       LAMBDA p1 : Ok(p1, ReturnStmt(Top(p).tmp[1], value)))

Parser_returnStatement(p) ==
  IF Top(p).at = 0
  THEN IF ~Parser_check(p, "SEMICOLON")
       THEN Descend(Keep(p, Parser_previous(p)), "expression", 1)
       \* let value is left undefined
       ELSE ReturnStatementEnd(Keep(p, Parser_previous(p)), Undef)
  ELSE ReturnStatementEnd(p, p.v)

Parser_expressionStatement(p) ==
  IF Top(p).at = 0 THEN Descend(p, "expression", 1)
  ELSE Then(Parser_consume(p, "SEMICOLON", "Expect \";\" after value."),
            LAMBDA p1 : Ok(p1, ExpressionStmt(p.v)))

RECURSIVE Parser_parameters(_, _)
\* the do-while of function(): the state with parameters in v
Parser_parameters(p, parameters) ==
  Bind(IF Len(parameters) >= 8
       THEN Parser_error(p, Parser_peek(p), "Cannot have more than 8 parameters.")
       ELSE p, LAMBDA p1 :
    Then(Parser_consume(p1, "IDENTIFIER", "Expect parameter name."), LAMBDA p2 :
      IF Parser_matches(p2, {"COMMA"})
      THEN Parser_parameters(Parser_advance(p2), Append(parameters, Parser_previous(p2)))
      ELSE [p2 EXCEPT !.v = Append(parameters, Parser_previous(p2))]))

\* function() after its parameters; the frame keeps name, parameters
FunctionBody(p) ==
  Then(Parser_consume(p, "RIGHT_PAREN", "Expect \")\" after parameters."), LAMBDA p1 :
    Then(Parser_consume(p1, "LEFT_BRACE",
                        "Expect \"{\" before " \o Top(p).node \o " body."),
         LAMBDA p2 : Descend(p2, "block", 1)))

Parser_function(p, kind) ==
  IF Top(p).at = 0
  THEN Then(Parser_consume(p, "IDENTIFIER", "Expect " \o kind \o " name."), LAMBDA p1 :
         Then(Parser_consume(Keep(p1, Parser_previous(p1)), "LEFT_PAREN",
                             "Expect \"(\" after " \o kind \o " name."), LAMBDA p2 :
           IF ~Parser_check(p2, "RIGHT_PAREN")
           THEN Then(Parser_parameters(p2, <<>>), LAMBDA p3 : FunctionBody(Keep(p3, p3.v)))
           ELSE FunctionBody(Keep(p2, <<>>))))
  ELSE Ok(p, FunctionStmt(Top(p).tmp[1], Top(p).tmp[2], p.v))

\* the loop of block() from its head; the frame keeps const statements
BlockLoop(p) ==
  IF ~Parser_check(p, "RIGHT_BRACE") /\ ~Parser_isAtEnd(p)
  THEN CallDeclaration(p)
  ELSE Then(Parser_consume(p, "RIGHT_BRACE", "Expect \"}\" after block."),
            LAMBDA p1 : Ok(p1, Top(p).tmp))

Parser_block(p) ==
  IF Top(p).at = 0 THEN BlockLoop(p) ELSE BlockLoop(Keep(p, p.v))

Parser_expression(p) == TailCall(p, "comma")

\* while (this.match(...types)) { operator; right = this.operand(); ... } of
\* the binary levels, from its head with expr the tree so far
OperatorLoop(p, expr, types, operand) ==
  IF Parser_matches(p, types)
  THEN Bind(Parser_advance(p), LAMBDA p1 :
         Descend([p1 EXCEPT !.k[Len(p1.k)].tmp = <<expr, Parser_previous(p1)>>],
                 operand, 2))
  ELSE Ok(p, expr)

\* a binary level: operand ( types operand )*, building Binary or Logical
BinaryLevel(p, types, operand, kind) ==
  CASE Top(p).at = 0 -> Descend(p, operand, 1)
    [] Top(p).at = 1 -> OperatorLoop(p, p.v, types, operand)
    [] OTHER ->
         OperatorLoop(p, IF kind = "Logical"
                         THEN Logical(Top(p).tmp[1], Top(p).tmp[2], p.v)
                         ELSE Binary(Top(p).tmp[1], Top(p).tmp[2], p.v),
                      types, operand)

Parser_comma(p) == BinaryLevel(p, {"COMMA"}, "assignment", "Binary")

\* the branch of assignment() for a property access on the left, which the
\* parser of the sources does not have: the Set node of the access
AssignmentToGet(p, get, value) == Ok(p, SetExpr(get.object, get.name, value))

\* assignment() that throws the error of an invalid target
Parser_assignmentThrows(p) ==
  CASE Top(p).at = 0 -> Descend(p, "or", 1)
    [] Top(p).at = 1 ->
         IF Parser_matches(p, {"EQUAL"})
         THEN Bind(Parser_advance(p), LAMBDA p1 :
                Descend(Keep(Keep(p1, p.v), Parser_previous(p1)), "assignment", 2))
         ELSE Ok(p, p.v)
    [] OTHER ->
         IF Top(p).tmp[1].kind = "Variable"
         THEN Ok(p, Assign(Top(p).tmp[1].id, Top(p).tmp[1].name, Top(p).tmp[2], p.v))
         ELSE IF Top(p).tmp[1].kind = "Get" THEN AssignmentToGet(p, Top(p).tmp[1], p.v)
         ELSE ThrowParseError(Parser_error(p, Top(p).tmp[2], "Invalid assignment target."))

Parser_assignment(p) ==
  CASE Top(p).at = 0 -> Descend(p, "or", 1)
    [] Top(p).at = 1 ->
         IF Parser_matches(p, {"EQUAL"})
         THEN Bind(Parser_advance(p), LAMBDA p1 :
                Descend(Keep(Keep(p1, p.v), Parser_previous(p1)), "assignment", 2))
         ELSE Ok(p, p.v)
    [] OTHER ->
         IF Top(p).tmp[1].kind = "Variable"
         \* the new node takes the place of the Variable node; its operator
         \* is the token that was matched
         THEN Ok(p, Assign(Top(p).tmp[1].id, Top(p).tmp[1].name, Top(p).tmp[2], p.v))
         ELSE IF Top(p).tmp[1].kind = "Get" THEN AssignmentToGet(p, Top(p).tmp[1], p.v)
         ELSE Ok(Parser_error(p, Top(p).tmp[2], "Invalid assignment target."),
                 Top(p).tmp[1])

Parser_or(p) == BinaryLevel(p, {"OR"}, "and", "Logical")

Parser_and(p) == BinaryLevel(p, {"AND"}, "equality", "Logical")

Parser_equality(p) ==
  BinaryLevel(p, {"BANG_EQUAL", "EQUAL_EQUAL"}, "comparison", "Binary")

Parser_comparison(p) ==
  BinaryLevel(p, {"GREATER", "GREATER_EQUAL", "LESS", "LESS_EQUAL"}, "addition", "Binary")

Parser_addition(p) == BinaryLevel(p, {"MINUS", "PLUS"}, "multiplication", "Binary")

\* "-" and "+" taken at the level of "/" and "*"
Parser_multiplicationWithAddition(p) ==
  BinaryLevel(p, {"SLASH", "STAR", "MINUS", "PLUS"}, "modulo", "Binary")

Parser_multiplication(p) == BinaryLevel(p, {"SLASH", "STAR"}, "modulo", "Binary")

Parser_modulo(p) == BinaryLevel(p, {"PERCENT"}, "exponent", "Binary")

Parser_exponent(p) == BinaryLevel(p, {"HAT"}, "unary", "Binary")

Parser_unary(p) ==
  IF Top(p).at = 1 THEN Ok(p, Unary(Top(p).tmp[1], p.v))
  ELSE IF Parser_matches(p, {"BANG", "MINUS"})
  THEN Bind(Parser_advance(p), LAMBDA p1 :
         Descend(Keep(p1, Parser_previous(p1)), "unary", 1))
  ELSE TailCall(p, "call")

\* the branch of call()'s loop for a '.', which the parser of the sources
\* does not have: the name is consumed and the loop goes on with the Get node
CallDot(p) ==
  Then(Parser_consume(Parser_advance(p), "IDENTIFIER", "Expect property name after '.'."),
       LAMBDA p1 : [p1 EXCEPT !.v = GetExpr(p.v, Parser_previous(p1))])

Parser_call(p) ==
  IF Top(p).at = 0 THEN Descend(p, "primary", 1)
  ELSE IF Parser_matches(p, {"LEFT_PAREN"})
  THEN Invoke(Parser_advance(p), "finishCall", p.v, <<>>, 1)
  ELSE IF Parser_matches(p, {"DOT"}) THEN CallDot(p)
  ELSE Ok(p, p.v)

\* the do-while of finishCall from its head; the frame keeps const args
ArgumentLoop(p) ==
  Bind(IF Len(Top(p).tmp) >= 8
       THEN Parser_error(p, Parser_peek(p), "Cannot have more than 8 arguments.")
       ELSE p, LAMBDA p1 : Descend(p1, "expression", 1))

\* finishCall from the consume of ")"
FinishCallEnd(p, callee) ==
  Then(Parser_consume(p, "RIGHT_PAREN", "Expect \")\" after arguments."),
       LAMBDA p1 : Ok(p1, Call(callee, Parser_previous(p1), Top(p).tmp)))

Parser_finishCall(p, callee) ==
  IF Top(p).at = 0
  \* If there are arguments to extract...
  THEN IF ~Parser_check(p, "RIGHT_PAREN") THEN ArgumentLoop(p)
       ELSE FinishCallEnd(p, callee)
  ELSE Bind(Keep(p, p.v), LAMBDA p1 :
         IF Parser_matches(p1, {"COMMA"}) THEN ArgumentLoop(Parser_advance(p1))
         ELSE FinishCallEnd(p1, callee))

Parser_primary(p) ==
  IF Top(p).at = 1
  THEN Then(Parser_consume(p, "RIGHT_PAREN", "Expect ')' after expression."),
            LAMBDA p1 : Ok(p1, Grouping(p.v)))
  ELSE IF Parser_matches(p, {"FALSE"}) THEN Ok(Parser_advance(p), Literal(BoolV(FALSE)))
  ELSE IF Parser_matches(p, {"TRUE"}) THEN Ok(Parser_advance(p), Literal(BoolV(TRUE)))
  ELSE IF Parser_matches(p, {"NIL"}) THEN Ok(Parser_advance(p), Literal(Nil))
  ELSE IF Parser_matches(p, {"NUMBER", "STRING"})
  THEN Ok(Parser_advance(p), Literal(Parser_peek(p).literal))
  \* the new Variable node is named by the place of its token
  ELSE IF Parser_matches(p, {"IDENTIFIER"})
  THEN Ok(Parser_advance(p), Variable(p.current + 1, Parser_peek(p)))
  ELSE IF Parser_matches(p, {"LEFT_PAREN"}) THEN Descend(Parser_advance(p), "expression", 1)
  ELSE ThrowParseError(Parser_error(p, Parser_peek(p), "Expect expression."))

\* one step of the parser: the method on top of k goes on to its next call,
\* return or throw; a thrown ParseError leaves every method but declaration
ParserStep(p) ==
  Bind(Top(p), LAMBDA f :
    IF p.sig # "Normal" /\ f.fn # "declaration" THEN Pop(p)
    ELSE CASE f.fn = "parse" -> Parser_parse(p)
           [] f.fn = "declaration" -> Parser_declaration(p)
           [] f.fn = "varDeclaration" -> Parser_varDeclaration(p)
           [] f.fn = "statement" -> Parser_statement(p)
           [] f.fn = "forStatement" -> Parser_forStatement(p)
           [] f.fn = "ifStatement" -> Parser_ifStatement(p)
           [] f.fn = "whileStatement" -> Parser_whileStatement(p)
           [] f.fn = "printStatement" -> Parser_printStatement(p)
           [] f.fn = "returnStatement" -> Parser_returnStatement(p)
           [] f.fn = "expressionStatement" -> Parser_expressionStatement(p)
           [] f.fn = "function" -> Parser_function(p, f.node)
           [] f.fn = "block" -> Parser_block(p)
           [] f.fn = "expression" -> Parser_expression(p)
           [] f.fn = "comma" -> Parser_comma(p)
           [] f.fn = "assignment" -> Parser_assignment(p)
           [] f.fn = "or" -> Parser_or(p)
           [] f.fn = "and" -> Parser_and(p)
           [] f.fn = "equality" -> Parser_equality(p)
           [] f.fn = "comparison" -> Parser_comparison(p)
           [] f.fn = "addition" -> Parser_addition(p)
           [] f.fn = "multiplication" -> Parser_multiplication(p)
           [] f.fn = "modulo" -> Parser_modulo(p)
           [] f.fn = "exponent" -> Parser_exponent(p)
           [] f.fn = "unary" -> Parser_unary(p)
           [] f.fn = "call" -> Parser_call(p)
           [] f.fn = "finishCall" -> Parser_finishCall(p, f.node)
           [] OTHER -> Parser_primary(p))

-----------------------------------------------------------------------------
(* Resolver.  The resolver state r is the record                            *)
(*   scopes: the stack of Map<string, boolean>, innermost last,             *)
(*   currentFunction, currentLoop, currentClass: the enclosing context,     *)
(*   locals: the interpreter's locals map, which interpreter.resolve fills, *)
(*   hadError, reports: Lox's error state,                                  *)
(*   k: the stack of the methods that have started and not returned.        *)

NewResolver(locals, lox) ==
  [scopes |-> <<>>, currentFunction |-> "NONE", currentLoop |-> "NONE",
   currentClass |-> "NONE",
   locals |-> locals, hadError |-> lox.hadError, reports |-> lox.reports, k |-> <<>>]

\* a locals that is a list to which every resolve adds an entry
Interpreter_resolveAppends(r, expr, depth) ==
  [r EXCEPT !.locals = Append(r.locals, <<expr.id, depth>>)]

Interpreter_resolve(r, expr, depth) ==
  [r EXCEPT !.locals = MapSet(r.locals, expr.id, depth)]

Resolver_beginScope(r) == [r EXCEPT !.scopes = Append(r.scopes, EmptyMap)]

Resolver_endScope(r) == [r EXCEPT !.scopes = SubSeq(r.scopes, 1, Len(r.scopes) - 1)]

\* declare that does not look whether the scope has the name
Resolver_declareUnchecked(r, name) ==
  IF Len(r.scopes) = 0 THEN r
  ELSE [r EXCEPT !.scopes[Len(r.scopes)] = MapSet(@, name.lexeme, FALSE)]

Resolver_declare(r, name) ==
  IF Len(r.scopes) = 0 THEN r
  ELSE Bind(IF MapHas(r.scopes[Len(r.scopes)], name.lexeme)
            THEN Lox_errorAtToken(r, name,
                   "Variable with this name is already declared in this scope.")
            ELSE r, LAMBDA r1 :
         [r1 EXCEPT !.scopes[Len(r.scopes)] = MapSet(@, name.lexeme, FALSE)])

Resolver_define(r, name) ==
  IF Len(r.scopes) = 0 THEN r
  ELSE [r EXCEPT !.scopes[Len(r.scopes)] = MapSet(@, name.lexeme, TRUE)]

RECURSIVE ResolveLocalFrom(_, _, _, _)
\* the loop of resolveLocal from scope index i (1-based) downward
ResolveLocalFrom(r, expr, name, i) ==
  IF i < 1 THEN r
  ELSE IF MapHas(r.scopes[i], name.lexeme)
       THEN Interpreter_resolve(r, expr, Len(r.scopes) - i)
       ELSE ResolveLocalFrom(r, expr, name, i - 1)

\* resolveLocal that takes the outermost scope with the name
Resolver_resolveLocalOutermost(r, expr, name) ==
  IF \E i \in 1..Len(r.scopes) : MapHas(r.scopes[i], name.lexeme)
  THEN Interpreter_resolve(r, expr,
         Len(r.scopes) - (CHOOSE i \in 1..Len(r.scopes) :
                            /\ MapHas(r.scopes[i], name.lexeme)
                            /\ \A j \in 1..(i - 1) : ~MapHas(r.scopes[j], name.lexeme)))
  ELSE r

Resolver_resolveLocal(r, expr, name) == ResolveLocalFrom(r, expr, name, Len(r.scopes))

\* resolve(...) that gives up once an error has been reported
Resolver_resolveUntilError(r, resolveables) ==
  IF Top(r).at >= Len(resolveables) \/ r.hadError THEN Pop(r)
  ELSE Invoke(r, resolveables[Top(r).at + 1].kind, resolveables[Top(r).at + 1],
              <<>>, Top(r).at + 1)

\* resolve(...resolveables): place i stands after resolveable i; what is
\* neither an Expr nor a Stmt (null, undefined) is passed over
Resolver_resolve(r, resolveables) ==
  IF Top(r).at >= Len(resolveables) THEN Pop(r)
  ELSE IF resolveables[Top(r).at + 1].kind \in {"null", "undefined"}
  THEN Goto(r, Top(r).at + 1)
  ELSE Invoke(r, resolveables[Top(r).at + 1].kind, resolveables[Top(r).at + 1],
              <<>>, Top(r).at + 1)

\* this.resolve(...) is called, the running method goes on at place at
ResolveAll(r, resolveables, at) == Invoke(r, "resolve", resolveables, <<>>, at)

RECURSIVE DeclareParams(_, _, _)
DeclareParams(r, params, i) ==
  IF i > Len(params) THEN r
  ELSE DeclareParams(Resolver_define(Resolver_declare(r, params[i]), params[i]),
                     params, i + 1)

\* tmp keeps type, then enclosingFunction
Resolver_resolveFunction(r, fn, type) ==
  IF Top(r).at = 0
  THEN ResolveAll(DeclareParams(Resolver_beginScope(
                 [Keep(r, r.currentFunction) EXCEPT !.currentFunction = type]),
                 fn.params, 1),
               fn.body, 1)
  ELSE Pop([Resolver_endScope(r) EXCEPT !.currentFunction = Top(r).tmp[2]])

\* visitBlockStmt that pushes two scopes for the one environment of a block
Resolver_visitBlockStmtTwoScopes(r, stmt) ==
  IF Top(r).at = 0
  THEN ResolveAll(Resolver_beginScope(Resolver_beginScope(r)), stmt.statements, 1)
  ELSE Pop(Resolver_endScope(Resolver_endScope(r)))

Resolver_visitBlockStmt(r, stmt) ==
  IF Top(r).at = 0 THEN ResolveAll(Resolver_beginScope(r), stmt.statements, 1)
  ELSE Pop(Resolver_endScope(r))

Resolver_visitExpressionStmt(r, stmt) ==
  IF Top(r).at = 0 THEN ResolveAll(r, <<stmt.expression>>, 1) ELSE Pop(r)

Resolver_visitVarStmt(r, stmt) ==
  IF Top(r).at = 0
  THEN IF stmt.initializer.kind # "null"
       THEN ResolveAll(Resolver_declare(r, stmt.name), <<stmt.initializer>>, 1)
       ELSE Pop(Resolver_define(Resolver_declare(r, stmt.name), stmt.name))
  ELSE Pop(Resolver_define(r, stmt.name))

Resolver_visitFunctionStmt(r, stmt) ==
  IF Top(r).at = 0
  THEN Invoke(Resolver_define(Resolver_declare(r, stmt.name), stmt.name),
              "resolveFunction", stmt, <<"FUNCTION">>, 1)
  ELSE Pop(r)

Resolver_visitIfStmt(r, stmt) ==
  CASE Top(r).at = 0 -> ResolveAll(r, <<stmt.condition>>, 1)
    [] Top(r).at = 1 -> ResolveAll(r, <<stmt.thenBranch>>, 2)
    [] Top(r).at = 2 /\ stmt.elseBranch.kind \notin {"null", "undefined"} ->
         ResolveAll(r, <<stmt.elseBranch>>, 3)
    [] OTHER -> Pop(r)

Resolver_visitPrintStmt(r, stmt) ==
  IF Top(r).at = 0 THEN ResolveAll(r, <<stmt.expression>>, 1) ELSE Pop(r)

Resolver_visitReturnStmt(r, stmt) ==
  IF Top(r).at = 0
  THEN Bind(IF r.currentFunction = "NONE"
            THEN Lox_errorAtToken(r, stmt.keyword, "Cannot return from top-level code.")
            ELSE r, LAMBDA r1 :
         IF stmt.value.kind \notin {"null", "undefined"}
         THEN ResolveAll(r1, <<stmt.value>>, 1)
         ELSE Pop(r1))
  ELSE Pop(r)

\* tmp keeps enclosingLoop
Resolver_visitWhileStmt(r, stmt) ==
  CASE Top(r).at = 0 ->
         ResolveAll([Keep(r, r.currentLoop) EXCEPT !.currentLoop = "LOOP"],
                 <<stmt.condition>>, 1)
    [] Top(r).at = 1 -> ResolveAll(r, <<stmt.body>>, 2)
    [] OTHER -> Pop([r EXCEPT !.currentLoop = Top(r).tmp[1]])

Resolver_visitBreakStmt(r, stmt) ==
  IF r.currentLoop = "NONE"
  THEN Pop(Lox_errorAtToken(r, stmt.keyword, "Cannot use \"break\" outside of a loop."))
  ELSE Pop(r)

Resolver_visitContinueStmt(r, stmt) ==
  IF r.currentLoop = "NONE"
  THEN Pop(Lox_errorAtToken(r, stmt.keyword,
                            "Cannot use \"continue\" outside of a loop."))
  ELSE Pop(r)

\* visitVariableExpr without the look at the innermost scope
Resolver_visitVariableExprUnchecked(r, expr) ==
  Pop(Resolver_resolveLocal(r, expr, expr.name))

Resolver_visitVariableExpr(r, expr) ==
  Bind(IF Len(r.scopes) > 0 /\ MapHas(r.scopes[Len(r.scopes)], expr.name.lexeme)
          /\ MapGet(r.scopes[Len(r.scopes)], expr.name.lexeme) = FALSE
       THEN Lox_errorAtToken(r, expr.name,
              "Cannot read local variable in its own initializer")
       ELSE r, LAMBDA r1 :
    Pop(Resolver_resolveLocal(r1, expr, expr.name)))

Resolver_visitAssignExpr(r, expr) ==
  IF Top(r).at = 0 THEN ResolveAll(r, <<expr.value>>, 1)
  ELSE Pop(Resolver_resolveLocal(r, expr, expr.name))

Resolver_visitBinaryExpr(r, expr) ==
  CASE Top(r).at = 0 -> ResolveAll(r, <<expr.left>>, 1)
    [] Top(r).at = 1 -> ResolveAll(r, <<expr.right>>, 2)
    [] OTHER -> Pop(r)

Resolver_visitCallExpr(r, expr) ==
  CASE Top(r).at = 0 -> ResolveAll(r, <<expr.callee>>, 1)
    [] Top(r).at = 1 -> ResolveAll(r, expr.args, 2)
    [] OTHER -> Pop(r)

Resolver_visitGroupingExpr(r, expr) ==
  IF Top(r).at = 0 THEN ResolveAll(r, <<expr.expression>>, 1) ELSE Pop(r)

Resolver_visitLogicalExpr(r, expr) ==
  CASE Top(r).at = 0 -> ResolveAll(r, <<expr.left>>, 1)
    [] Top(r).at = 1 -> ResolveAll(r, <<expr.right>>, 2)
    [] OTHER -> Pop(r)

Resolver_visitUnaryExpr(r, expr) ==
  IF Top(r).at = 0 THEN ResolveAll(r, <<expr.right>>, 1) ELSE Pop(r)

Resolver_visitLiteralExpr(r, expr) == Pop(r)

\* The resolver's visitors of classes.  The class is declared and defined;
\* each method is resolved as a function inside a scope of its own that
\* holds this, the scope that stands for the environment bind() makes.
\* Place 2j - 1 stands before method j, place 2j after it; tmp keeps the
\* enclosing class kind
Resolver_visitClassStmt(r, stmt) ==
  Bind(Top(r).at, LAMBDA at :
    IF at = 0
    THEN Goto([Keep(Resolver_define(Resolver_declare(r, stmt.name), stmt.name),
                    r.currentClass) EXCEPT !.currentClass = "CLASS"], 1)
    ELSE IF at > 2 * Len(stmt.methods)
    THEN Pop([r EXCEPT !.currentClass = Top(r).tmp[1]])
    ELSE IF at % 2 = 1
    THEN Bind(Resolver_beginScope(r), LAMBDA r1 :
           Invoke([r1 EXCEPT !.scopes[Len(r1.scopes)] = MapSet(@, "this", TRUE)],
                  "resolveFunction", stmt.methods[(at + 1) \div 2],
                  <<IF stmt.methods[(at + 1) \div 2].name.lexeme = "init"
                    THEN "INITIALIZER" ELSE "METHOD">>, at + 1))
    ELSE Goto(Resolver_endScope(r), at + 1))

Resolver_visitGetExpr(r, expr) ==
  IF Top(r).at = 0 THEN ResolveAll(r, <<expr.object>>, 1) ELSE Pop(r)

Resolver_visitSetExpr(r, expr) ==
  CASE Top(r).at = 0 -> ResolveAll(r, <<expr.value>>, 1)
    [] Top(r).at = 1 -> ResolveAll(r, <<expr.object>>, 2)
    [] OTHER -> Pop(r)

Resolver_visitThisExpr(r, expr) ==
  Bind(IF r.currentClass = "NONE"
       THEN Lox_errorAtToken(r, expr.keyword, "Cannot use 'this' outside of a class.")
       ELSE r, LAMBDA r1 :
    Pop(Resolver_resolveLocal(r1, expr, expr.keyword)))

\* one step of the resolver: the method on top of the stack goes on
ResolverStep(r) ==
  Bind(Top(r), LAMBDA f :
    CASE f.fn = "resolve" -> Resolver_resolve(r, f.node)
      [] f.fn = "resolveFunction" -> Resolver_resolveFunction(r, f.node, f.tmp[1])
      [] f.fn = "Block" -> Resolver_visitBlockStmt(r, f.node)
      [] f.fn = "Expression" -> Resolver_visitExpressionStmt(r, f.node)
      [] f.fn = "Var" -> Resolver_visitVarStmt(r, f.node)
      [] f.fn = "Function" -> Resolver_visitFunctionStmt(r, f.node)
      [] f.fn = "If" -> Resolver_visitIfStmt(r, f.node)
      [] f.fn = "Print" -> Resolver_visitPrintStmt(r, f.node)
      [] f.fn = "Return" -> Resolver_visitReturnStmt(r, f.node)
      [] f.fn = "While" -> Resolver_visitWhileStmt(r, f.node)
      [] f.fn = "Break" -> Resolver_visitBreakStmt(r, f.node)
      [] f.fn = "Continue" -> Resolver_visitContinueStmt(r, f.node)
      [] f.fn = "Variable" -> Resolver_visitVariableExpr(r, f.node)
      [] f.fn = "Assign" -> Resolver_visitAssignExpr(r, f.node)
      [] f.fn = "Binary" -> Resolver_visitBinaryExpr(r, f.node)
      [] f.fn = "Call" -> Resolver_visitCallExpr(r, f.node)
      [] f.fn = "Grouping" -> Resolver_visitGroupingExpr(r, f.node)
      [] f.fn = "Logical" -> Resolver_visitLogicalExpr(r, f.node)
      [] f.fn = "Unary" -> Resolver_visitUnaryExpr(r, f.node)
      [] f.fn = "Literal" -> Resolver_visitLiteralExpr(r, f.node)
      [] f.fn = "Class" -> Resolver_visitClassStmt(r, f.node)
      [] f.fn = "Get" -> Resolver_visitGetExpr(r, f.node)
      [] f.fn = "Set" -> Resolver_visitSetExpr(r, f.node)
      [] f.fn = "This" -> Resolver_visitThisExpr(r, f.node)
      \* a node class without a visitor in the resolver
      [] OTHER -> Pop(r))

-----------------------------------------------------------------------------
(* Lox.run: the pipeline and its steps *)

\* no scanner or parser yet, or none at all when the run starts from a tree
NoScanner == [source |-> <<>>, tokens |-> <<>>, start |-> 0, current |-> 0, line |-> 1]
NoParser == [tokens |-> <<>>, current |-> 0, k |-> <<>>, sig |-> "Normal", v |-> Null]

\* new Scanner(source)
StartScanner(source) ==
  [source |-> source, tokens |-> <<>>, start |-> 0, current |-> 0, line |-> 1]

\* new Parser(tokens), and parser.parse() called
StartParser(tokens) ==
  [tokens |-> tokens, current |-> 0, k |-> <<Frame("parse", Null, <<>>)>>,
   sig |-> "Normal", v |-> Null]

\* new Resolver(interpreter), and resolver.resolve(...statements) called
StartResolver(stmts) ==
  [scopes |-> <<>>, currentFunction |-> "NONE", currentLoop |-> "NONE",
   currentClass |-> "NONE",
   k |-> <<Frame("resolve", stmts, <<>>)>>]

\* one turn of the loop of scanner.scanTokens(), or its end
Scan ==
  /\ pc = "scan"
  /\ \E sc \in {Scanner_scanTokens([source |-> scanner.source, tokens |-> scanner.tokens,
                                    start |-> scanner.start, current |-> scanner.current,
                                    line |-> scanner.line,
                                    hadError |-> hadError, reports |-> reports])} :
        /\ scanner' = [source |-> sc.source, tokens |-> sc.tokens, start |-> sc.start,
                       current |-> sc.current, line |-> sc.line]
        /\ hadError' = sc.hadError
        /\ reports' = sc.reports
        /\ IF Scanner_isAtEnd(scanner)
           THEN pc' = "parse" /\ parser' = StartParser(sc.tokens)
           ELSE UNCHANGED <<pc, parser>>
  /\ UNCHANGED <<input, statements, resolver, interp, idx, hadRuntimeError,
                 runtimeErrors>>

\* one step of parser.parse(); at its return the resolver is made and called
Parse ==
  /\ pc = "parse"
  /\ \E p \in {ParserStep([tokens |-> parser.tokens, current |-> parser.current,
                           k |-> parser.k, sig |-> parser.sig, v |-> parser.v,
                           hadError |-> hadError, reports |-> reports])} :
        /\ hadError' = p.hadError
        /\ reports' = p.reports
        /\ IF Len(p.k) = 0
           THEN /\ parser' = [tokens |-> p.tokens, current |-> p.current, k |-> p.k,
                              sig |-> p.sig, v |-> Null]
                /\ statements' = p.v
                /\ resolver' = StartResolver(p.v)
                /\ pc' = "resolve"
           ELSE /\ parser' = [tokens |-> p.tokens, current |-> p.current, k |-> p.k,
                              sig |-> p.sig, v |-> p.v]
                /\ UNCHANGED <<statements, resolver, pc>>
  /\ UNCHANGED <<input, scanner, interp, idx, hadRuntimeError, runtimeErrors>>

\* one step of resolver.resolve(...statements); the run is at place from and
\* goes to place to when resolve() returns
ResolvePass(from, to) ==
  /\ pc = from
  /\ \E r \in {ResolverStep([scopes |-> resolver.scopes,
                              currentFunction |-> resolver.currentFunction,
                              currentLoop |-> resolver.currentLoop,
                              currentClass |-> resolver.currentClass,
                              k |-> resolver.k,
                              locals |-> interp.locals,
                              hadError |-> hadError, reports |-> reports])} :
        /\ interp' = [interp EXCEPT !.locals = r.locals]
        /\ hadError' = r.hadError
        /\ reports' = r.reports
        /\ resolver' = [scopes |-> r.scopes, currentFunction |-> r.currentFunction,
                        currentLoop |-> r.currentLoop,
                        currentClass |-> r.currentClass, k |-> r.k]
        /\ pc' = IF Len(r.k) = 0 THEN to ELSE from
  /\ UNCHANGED <<input, scanner, parser, statements, idx, hadRuntimeError, runtimeErrors>>

\* resolver.resolve(...statements) of Lox.run
Resolve == ResolvePass("resolve", "gate")

\* a second new Resolver(interpreter) for the same interpreter and the same
\* statements, and its resolve(...statements)
ResolveAnew ==
  /\ pc = "gate"
  /\ pc' = "resolve again"
  /\ resolver' = StartResolver(statements)
  /\ UNCHANGED <<input, scanner, parser, statements, interp, idx, hadError,
                 hadRuntimeError, reports, runtimeErrors>>

ResolveAgain == ResolvePass("resolve again", "done")

\* if (Lox.hadError) return; then the coercion of a lone expression statement
Gate ==
  /\ pc = "gate"
  /\ \/ /\ hadError
        /\ pc' = "done"
        /\ UNCHANGED statements
     \/ /\ ~hadError
        /\ pc' = "interpret"
        /\ statements' =
             IF input.coerce /\ Len(statements) = 1 /\ statements[1].kind = "Expression"
             THEN <<PrintStmt(statements[1].expression)>>
             ELSE statements
  /\ UNCHANGED <<input, scanner, parser, resolver, interp, idx, hadError,
                 hadRuntimeError, reports, runtimeErrors>>

\* a turn of the forEach of Interpreter.interpret: this.execute(statement)
Execute ==
  /\ pc = "interpret"
  /\ idx <= Len(statements)
  /\ Len(interp.k) = 0
  /\ interp.sig = "Normal"
  /\ interp' = Push(interp, Frame(statements[idx].kind, statements[idx], <<>>))
  /\ UNCHANGED <<input, pc, scanner, parser, statements, resolver, idx, hadError,
                 hadRuntimeError, reports, runtimeErrors>>

\* one step of the statement that is executing; when it returns the forEach
\* moves on, when the fuel runs out the run is taken not to end
Step ==
  /\ pc = "interpret"
  /\ Len(interp.k) > 0
  /\ \E s \in {InterpreterStep(interp)} :
        /\ interp' = s
        /\ pc' = IF s.sig = "Hang" THEN "hung" ELSE pc
        /\ idx' = IF Len(s.k) = 0 /\ s.sig = "Normal" THEN idx + 1 ELSE idx
  /\ UNCHANGED <<input, scanner, parser, statements, resolver, hadError,
                 hadRuntimeError, reports, runtimeErrors>>

\* a catch inside the forEach: the error is reported and the next statement
\* runs
CatchAndGoOn ==
  /\ pc = "interpret"
  /\ Len(interp.k) = 0
  /\ interp.sig # "Normal"
  /\ hadRuntimeError' = TRUE
  /\ runtimeErrors' = Append(runtimeErrors, interp.msg)
  /\ interp' = [interp EXCEPT !.sig = "Normal"]
  /\ idx' = idx + 1
  /\ UNCHANGED <<input, pc, scanner, parser, statements, resolver, hadError, reports>>

\* the catch of Interpreter.interpret
Catch ==
  /\ pc = "interpret"
  /\ Len(interp.k) = 0
  /\ interp.sig # "Normal"
  /\ IF interp.sig = "RuntimeError"
     \* Lox.runtimeError(error)
     THEN /\ hadRuntimeError' = TRUE
          /\ runtimeErrors' = Append(runtimeErrors, interp.msg)
     \* console.log('Generic error. ', error)
     ELSE /\ runtimeErrors' = Append(runtimeErrors, "Generic error. " \o interp.sig)
          /\ UNCHANGED hadRuntimeError
  /\ pc' = "done"
  /\ UNCHANGED <<input, scanner, parser, statements, resolver, interp, idx,
                 hadError, reports>>

\* the forEach ran through: interpret and run return
Finish ==
  /\ pc = "interpret"
  /\ idx > Len(statements)
  /\ pc' = "done"
  /\ UNCHANGED <<input, scanner, parser, statements, resolver, interp, idx,
                 hadError, hadRuntimeError, reports, runtimeErrors>>

-----------------------------------------------------------------------------
(* Programs handed to resolve() and interpret() as trees.  An input is      *)
(* [family, args, coerce]: args selects the member of the family.           *)

\* the operand values the families draw from, by index
Vals == <<Nil, BoolV(FALSE), BoolV(TRUE), NumV(0), NumV(1), NumV(2), StrV(""), StrV("a")>>

OpLexeme(type) ==
  CASE type = "PLUS" -> "+" [] type = "MINUS" -> "-" [] type = "STAR" -> "*"
    [] type = "SLASH" -> "/" [] type = "PERCENT" -> "%" [] type = "HAT" -> "^"
    [] type = "EQUAL" -> "=" [] type = "EQUAL_EQUAL" -> "==" [] type = "BANG_EQUAL" -> "!="
    [] type = "LESS" -> "<" [] type = "LESS_EQUAL" -> "<=" [] type = "GREATER" -> ">"
    [] type = "GREATER_EQUAL" -> ">=" [] type = "BANG" -> "!" [] type = "COMMA" -> ","
    [] type = "OR" -> "or" [] type = "AND" -> "and" [] type = "RIGHT_PAREN" -> ")"
    [] type = "PLUS_EQUAL" -> "+=" [] type = "MINUS_EQUAL" -> "-="
    [] type = "STAR_EQUAL" -> "*=" [] type = "SLASH_EQUAL" -> "/="
    [] OTHER -> type

Op(type) == Tok(type, OpLexeme(type))
Num(n) == Literal(NumV(n))
Str(s) == Literal(StrV(s))
Ref(id, lexeme) == Variable(id, Name(lexeme))
Set(id, lexeme, value) == Assign(id, Name(lexeme), Op("EQUAL"), value)
Call0(callee) == Call(callee, Op("RIGHT_PAREN"), <<>>)

\* var a = X; { var a = Y; print a; { var a = Z; print a; } print a; } print a;
ShadowProgram(x, y, z) ==
  << VarStmt(Name("a"), Literal(Vals[x])),
     BlockStmt(<< VarStmt(Name("a"), Literal(Vals[y])),
                  PrintStmt(Ref(1, "a")),
                  BlockStmt(<< VarStmt(Name("a"), Literal(Vals[z])),
                               PrintStmt(Ref(2, "a")) >>),
                  PrintStmt(Ref(3, "a")) >>),
     PrintStmt(Ref(4, "a")) >>

\* the statement that fails in the run-time error family, by kind
FailingStmt(kind) ==
  CASE kind = 1 -> PrintStmt(Binary(Num(1), Op("SLASH"), Num(0)))
    [] kind = 2 -> PrintStmt(Ref(90, "undef"))
    [] kind = 3 -> ExpressionStmt(Set(91, "undef", Num(1)))
    [] kind = 4 -> PrintStmt(Unary(Op("MINUS"), Literal(Nil)))
    [] kind = 5 -> ExpressionStmt(Call0(Literal(Nil)))
    [] kind = 6 -> ExpressionStmt(Call(Ref(92, "time"), Op("RIGHT_PAREN"), <<Num(1)>>))

\* var a = 0; then NumStmts statements, the j-th being  print a = j;  except
\* the k-th, which is the failing statement (k = 0: none fails)
RuntimeErrorProgram(k, kind) ==
  <<VarStmt(Name("a"), Num(0))>> \o
  [j \in 1..NumStmts |->
     IF j = k THEN FailingStmt(kind) ELSE PrintStmt(Set(j, "a", Num(j)))]

UndefOps == <<"EQUAL", "PLUS_EQUAL", "MINUS_EQUAL", "STAR_EQUAL", "SLASH_EQUAL">>

\* the name that is bound nowhere (kind <= 6), or only in the environment of
\* a block that has been left (kind >= 7)
UndefName(kind) == IF kind <= 6 THEN "undef" ELSE "gone"

\* print NAME;  (kinds 1 and 7), or  NAME op 1;  with op of UndefOps
UndefStmt(kind) ==
  IF kind \in {1, 7} THEN PrintStmt(Ref(90, UndefName(kind)))
  ELSE ExpressionStmt(Assign(91, Name(UndefName(kind)),
                             Op(UndefOps[IF kind <= 6 THEN kind - 1 ELSE kind - 7]),
                             Num(1)))

\* var a = 0; { var gone = 1; } S print "after";  where S is the statement
\* at top level (place 1), { var b = 1; S } (place 2) or
\* fun f() { var b = 1; S } f(); (place 3)
UndefProgram(kind, place) ==
  << VarStmt(Name("a"), Num(0)),
     BlockStmt(<<VarStmt(Name("gone"), Num(1))>>) >> \o
  (CASE place = 1 -> <<UndefStmt(kind)>>
     [] place = 2 -> <<BlockStmt(<<VarStmt(Name("b"), Num(1)), UndefStmt(kind)>>)>>
     [] place = 3 -> << FunctionStmt(Name("f"), <<>>,
                                     <<VarStmt(Name("b"), Num(1)), UndefStmt(kind)>>),
                        ExpressionStmt(Call0(Ref(92, "f"))) >>) \o
  <<PrintStmt(Str("after"))>>

\* var t = "unset"; print A op (t = B); print t;
LogicalProgram(op, a, b) ==
  << VarStmt(Name("t"), Str("unset")),
     PrintStmt(Logical(Literal(Vals[a]), Op(op),
                       Grouping(Set(1, "t", Literal(Vals[b]))))),
     PrintStmt(Ref(2, "t")) >>

CompoundOps == <<"PLUS", "MINUS", "STAR", "SLASH">>

\* var x = A; print x = x op B; print x;  (form 1), or
\* var x = A; print x op= B; print x;  (form 2)
CompoundProgram(form, op, a, b) ==
  << VarStmt(Name("x"), Literal(Vals[a])),
     PrintStmt(IF form = 1
               THEN Assign(1, Name("x"), Op("EQUAL"),
                           Binary(Ref(2, "x"), Op(CompoundOps[op]), Literal(Vals[b])))
               ELSE Assign(1, Name("x"), Op(CompoundOps[op] \o "_EQUAL"),
                           Literal(Vals[b]))),
     PrintStmt(Ref(3, "x")) >>

\* print A / B; print "after";
DivideProgram(a, b) ==
  << PrintStmt(Binary(Literal(Vals[a]), Op("SLASH"), Literal(Vals[b]))),
     PrintStmt(Str("after")) >>

Return(value) == ReturnStmt(Tok("RETURN", "return"), value)
Break == BreakStmt(Tok("BREAK", "break"))
Continue == ContinueStmt(Tok("CONTINUE", "continue"))

\* var n = 0;
\* fun chk() { print "chk"; return n < N; }
\* fun inc() { print "inc"; n = n + 1; }
\* for (; chk(); inc()) {
\*   print "body"; if (n == K) continue; if (n == B) break; print "tail"; }
\* print "end";
ForProgram(N, K, B) ==
  << VarStmt(Name("n"), Num(0)),
     FunctionStmt(Name("chk"), <<>>,
       << PrintStmt(Str("chk")),
          Return(Binary(Ref(1, "n"), Op("LESS"), Num(N))) >>),
     FunctionStmt(Name("inc"), <<>>,
       << PrintStmt(Str("inc")),
          ExpressionStmt(Set(2, "n", Binary(Ref(3, "n"), Op("PLUS"), Num(1)))) >>),
     DesugarFor(Null, Call0(Ref(4, "chk")), Call0(Ref(5, "inc")),
       BlockStmt(<< PrintStmt(Str("body")),
                    IfStmt(Binary(Ref(6, "n"), Op("EQUAL_EQUAL"), Num(K)), Continue, Null),
                    IfStmt(Binary(Ref(7, "n"), Op("EQUAL_EQUAL"), Num(B)), Break, Null),
                    PrintStmt(Str("tail")) >>)),
     PrintStmt(Str("end")) >>

\* for (var i = 0; i < N; i = i + 1) {
\*   if (i == K) continue; if (i == B) break; print i; }
\* print "end";
ForVarProgram(N, K, B) ==
  << DesugarFor(VarStmt(Name("i"), Num(0)),
       Binary(Ref(1, "i"), Op("LESS"), Num(N)),
       Set(2, "i", Binary(Ref(3, "i"), Op("PLUS"), Num(1))),
       BlockStmt(<< IfStmt(Binary(Ref(4, "i"), Op("EQUAL_EQUAL"), Num(K)), Continue, Null),
                    IfStmt(Binary(Ref(5, "i"), Op("EQUAL_EQUAL"), Num(B)), Break, Null),
                    PrintStmt(Ref(6, "i")) >>)),
     PrintStmt(Str("end")) >>

\* var i = 0;
\* while (i < N) {
\*   var tag = "outer"; var j = 0;
\*   while (j < M) { j = j + 1; if (j == K) break; print j; }
\*   print tag; i = i + 1; }
\* print "end";
\* with continue for break when kind = 2
NestedProgram(N, M, K, kind) ==
  << VarStmt(Name("i"), Num(0)),
     WhileStmt(Binary(Ref(1, "i"), Op("LESS"), Num(N)),
       BlockStmt(<<
         VarStmt(Name("tag"), Str("outer")),
         VarStmt(Name("j"), Num(0)),
         WhileStmt(Binary(Ref(2, "j"), Op("LESS"), Num(M)),
           BlockStmt(<<
             ExpressionStmt(Set(3, "j", Binary(Ref(4, "j"), Op("PLUS"), Num(1)))),
             IfStmt(Binary(Ref(5, "j"), Op("EQUAL_EQUAL"), Num(K)),
                    IF kind = 1 THEN Break ELSE Continue, Null),
             PrintStmt(Ref(6, "j")) >>)),
         PrintStmt(Ref(7, "tag")),
         ExpressionStmt(Set(8, "i", Binary(Ref(9, "i"), Op("PLUS"), Num(1)))) >>)),
     PrintStmt(Str("end")) >>

\* var i = 0;
\* while (i < N) { fun f() { break; print "f"; } i = i + 1; f(); print "in"; }
\* print "after";
\* with continue for break when kind = 2
LoopFunctionProgram(N, kind) ==
  << VarStmt(Name("i"), Num(0)),
     WhileStmt(Binary(Ref(1, "i"), Op("LESS"), Num(N)),
       BlockStmt(<<
         FunctionStmt(Name("f"), <<>>,
           << IF kind = 1 THEN Break ELSE Continue, PrintStmt(Str("f")) >>),
         ExpressionStmt(Set(2, "i", Binary(Ref(3, "i"), Op("PLUS"), Num(1)))),
         ExpressionStmt(Call0(Ref(4, "f"))),
         PrintStmt(Str("in")) >>)),
     PrintStmt(Str("after")) >>

\* fun makeCounter() {
\*   var i = 0; fun count() { i = i + 1; return i; } return count; }
\* var c1 = makeCounter(); var c2 = makeCounter();
\* then, for each entry k of calls:  print c<k>();
CounterName(k) == IF k = 1 THEN "c1" ELSE "c2"

CounterProgram(calls) ==
  << FunctionStmt(Name("makeCounter"), <<>>,
       << VarStmt(Name("i"), Num(0)),
          FunctionStmt(Name("count"), <<>>,
            << ExpressionStmt(Set(1, "i", Binary(Ref(2, "i"), Op("PLUS"), Num(1)))),
               Return(Ref(3, "i")) >>),
          Return(Ref(4, "count")) >>),
     VarStmt(Name("c1"), Call0(Ref(5, "makeCounter"))),
     VarStmt(Name("c2"), Call0(Ref(6, "makeCounter"))) >>
  \o [j \in 1..Len(calls) |-> PrintStmt(Call0(Ref(10 + j, CounterName(calls[j]))))]

\* fun outer() {
\*   var x = "outer";
\*   fun show() { print x; }
\*   fun caller() { var x = "caller"; show(); }
\*   caller(); }
\* outer();
LexicalProgram ==
  << FunctionStmt(Name("outer"), <<>>,
       << VarStmt(Name("x"), Str("outer")),
          FunctionStmt(Name("show"), <<>>, << PrintStmt(Ref(1, "x")) >>),
          FunctionStmt(Name("caller"), <<>>,
            << VarStmt(Name("x"), Str("caller")),
               ExpressionStmt(Call0(Ref(2, "show"))) >>),
          ExpressionStmt(Call0(Ref(3, "caller"))) >>),
     ExpressionStmt(Call0(Ref(4, "outer"))) >>

This(id) == ThisExpr(id, Tok("THIS", "this"))
Call1(callee, arg) == Call(callee, Op("RIGHT_PAREN"), <<arg>>)

\* init(x) { print "init"; this.x = x; } followed, by kind, by nothing (1),
\* return; (2) or return "r"; (3)
InitMethod(kind) ==
  FunctionStmt(Name("init"), <<Name("x")>>,
    << PrintStmt(Str("init")),
       ExpressionStmt(SetExpr(This(1), Name("x"), Ref(2, "x"))) >>
    \o CASE kind = 1 -> <<>>
         [] kind = 2 -> <<Return(Null)>>
         [] kind = 3 -> <<Return(Str("r"))>>)

\* class Thing { <init of the kind; none when kind = 0> }
\* var t = Thing(V);   (Thing() when nargs = 0)
\* print t; print t.x;   (print t.x only when there is an init)
InitProgram(kind, nargs, v) ==
  << ClassStmt(Name("Thing"), IF kind = 0 THEN <<>> ELSE <<InitMethod(kind)>>),
     VarStmt(Name("t"), IF nargs = 0 THEN Call0(Ref(3, "Thing"))
                        ELSE Call1(Ref(3, "Thing"), Literal(Vals[v]))),
     PrintStmt(Ref(4, "t")) >>
  \o IF kind = 0 THEN <<>> ELSE <<PrintStmt(GetExpr(Ref(5, "t"), Name("x")))>>

\* class Thing {
\*   init(x) { this.x = x; }
\*   get() { return this.x; }
\*   tag() { return "method"; } }
\* var t = Thing(V1); var u = Thing(V2);
\* var g = t.get; print g(); print u.get();
\* print t.tag(); t.tag = V2; print t.tag;
\* print u.tag();
\* print t.missing; print "after";
PropertyProgram(v1, v2) ==
  << ClassStmt(Name("Thing"),
       << FunctionStmt(Name("init"), <<Name("x")>>,
            << ExpressionStmt(SetExpr(This(1), Name("x"), Ref(2, "x"))) >>),
          FunctionStmt(Name("get"), <<>>, << Return(GetExpr(This(3), Name("x"))) >>),
          FunctionStmt(Name("tag"), <<>>, << Return(Str("method")) >>) >>),
     VarStmt(Name("t"), Call1(Ref(4, "Thing"), Literal(Vals[v1]))),
     VarStmt(Name("u"), Call1(Ref(5, "Thing"), Literal(Vals[v2]))),
     VarStmt(Name("g"), GetExpr(Ref(6, "t"), Name("get"))),
     PrintStmt(Call0(Ref(7, "g"))),
     PrintStmt(Call0(GetExpr(Ref(8, "u"), Name("get")))),
     PrintStmt(Call0(GetExpr(Ref(9, "t"), Name("tag")))),
     ExpressionStmt(SetExpr(Ref(10, "t"), Name("tag"), Literal(Vals[v2]))),
     PrintStmt(GetExpr(Ref(11, "t"), Name("tag"))),
     PrintStmt(Call0(GetExpr(Ref(12, "u"), Name("tag")))),
     PrintStmt(GetExpr(Ref(13, "t"), Name("missing"))),
     PrintStmt(Str("after")) >>

\* class Thing { init(x) { this.x = x; } }
\* var t = Thing(V1);
\* var r = t.init(V2);
\* print r; print t.x;
DirectInitProgram(v1, v2) ==
  << ClassStmt(Name("Thing"),
       << FunctionStmt(Name("init"), <<Name("x")>>,
            << ExpressionStmt(SetExpr(This(1), Name("x"), Ref(2, "x"))) >>) >>),
     VarStmt(Name("t"), Call1(Ref(3, "Thing"), Literal(Vals[v1]))),
     VarStmt(Name("r"), Call1(GetExpr(Ref(4, "t"), Name("init")), Literal(Vals[v2]))),
     PrintStmt(Ref(5, "r")),
     PrintStmt(GetExpr(Ref(6, "t"), Name("x"))) >>

\* the statement when b = 1, nothing when b = 0
Opt(b, stmt) == IF b = 1 THEN <<stmt>> ELSE <<>>

\* the innermost block of the scope programs:
\* { [var x = 3;] print x; x = 7; [var x = 9; print x;] }
ScopeInner(d3, late) ==
  BlockStmt(Opt(d3, VarStmt(Name("x"), Num(3))) \o
            << PrintStmt(Ref(1, "x")), ExpressionStmt(Set(2, "x", Num(7))) >> \o
            Opt(late, VarStmt(Name("x"), Num(9))) \o
            Opt(late, PrintStmt(Ref(3, "x"))))

\* [var x = 0;] { [var x = 1;] { [var x = 2;] INNER } }  (shape 1), or with
\* the middle block a function:  fun f() { [var x = 2;] INNER } f();
ScopeProgram(d0, d1, d2, d3, late, shape) ==
  Opt(d0, VarStmt(Name("x"), Num(0))) \o
  << BlockStmt(Opt(d1, VarStmt(Name("x"), Num(1))) \o
       (IF shape = 1
        THEN << BlockStmt(Opt(d2, VarStmt(Name("x"), Num(2))) \o
                          <<ScopeInner(d3, late)>>) >>
        ELSE << FunctionStmt(Name("f"), <<>>,
                  Opt(d2, VarStmt(Name("x"), Num(2))) \o <<ScopeInner(d3, late)>>),
                ExpressionStmt(Call0(Ref(4, "f"))) >>)) >>

RECURSIVE Nest(_, _)
\* the statements inside depth blocks
Nest(stmts, depth) ==
  IF depth = 0 THEN stmts ELSE <<BlockStmt(Nest(stmts, depth - 1))>>

\* the statements inside depth scopes, the outermost being a block (shape 1)
\* or the body of a function that is called (shape 2)
NestIn(stmts, depth, shape) ==
  IF depth = 0 \/ shape = 1 THEN Nest(stmts, depth)
  ELSE << FunctionStmt(Name("f"), <<>>, Nest(stmts, depth - 1)),
          ExpressionStmt(Call0(Ref(9, "f"))) >>

\* print "ran"; [var a = 1;] then, inside depth scopes,  var a = a;
SelfInitProgram(depth, shape, outer) ==
  <<PrintStmt(Str("ran"))>> \o Opt(outer, VarStmt(Name("a"), Num(1))) \o
  NestIn(<<VarStmt(Name("a"), Ref(1, "a"))>>, depth, shape)

\* two declarations of a, by kind: in one scope (1..5)
\*   1  var a = 1; var a = 2;        2  fun a() {} fun a() {}
\*   3  var a = 1; fun a() {}        4  fun f(a, a) {}
\*   5  fun f(a) { var a = 1; }
\* or the second in a scope inside the scope of the first (6..8)
\*   6  var a = 1; { var a = 2; }    7  var a = 1; fun f(a) {}
\*   8  var a = 1; fun f() { var a = 2; }
TwoDeclarations(kind) ==
  CASE kind = 1 -> << VarStmt(Name("a"), Num(1)), VarStmt(Name("a"), Num(2)) >>
    [] kind = 2 -> << FunctionStmt(Name("a"), <<>>, <<>>),
                      FunctionStmt(Name("a"), <<>>, <<>>) >>
    [] kind = 3 -> << VarStmt(Name("a"), Num(1)), FunctionStmt(Name("a"), <<>>, <<>>) >>
    [] kind = 4 -> << FunctionStmt(Name("f"), <<Name("a"), Name("a")>>, <<>>) >>
    [] kind = 5 -> << FunctionStmt(Name("f"), <<Name("a")>>,
                                   <<VarStmt(Name("a"), Num(1))>>) >>
    [] kind = 6 -> << VarStmt(Name("a"), Num(1)),
                      BlockStmt(<<VarStmt(Name("a"), Num(2))>>) >>
    [] kind = 7 -> << VarStmt(Name("a"), Num(1)),
                      FunctionStmt(Name("f"), <<Name("a")>>, <<>>) >>
    [] kind = 8 -> << VarStmt(Name("a"), Num(1)),
                      FunctionStmt(Name("f"), <<>>, <<VarStmt(Name("a"), Num(2))>>) >>

\* print "ran"; then the two declarations inside depth blocks
RedeclareProgram(depth, kind) ==
  <<PrintStmt(Str("ran"))>> \o Nest(TwoDeclarations(kind), depth)

\* inside depth blocks: [return 1;] [break;] [continue;] { var z = 1; print z; }
MisplacedProgram(r, b, c, depth) ==
  Nest(Opt(r, Return(Num(1))) \o Opt(b, Break) \o Opt(c, Continue) \o
       << BlockStmt(<< VarStmt(Name("z"), Num(1)), PrintStmt(Ref(1, "z")) >>) >>,
       depth)

\* programs the resolver rejects
StaticErrorProgram(k) ==
  CASE k = 1 -> << PrintStmt(Str("before")), Return(Num(1)) >>
    [] k = 2 -> << PrintStmt(Str("before")), Break >>
    [] k = 3 -> << PrintStmt(Str("before")), Continue >>
    [] k = 4 -> << PrintStmt(Str("before")),
                   BlockStmt(<< VarStmt(Name("a"), Ref(1, "a")) >>) >>
    [] k = 5 -> << PrintStmt(Str("before")),
                   BlockStmt(<< VarStmt(Name("a"), Num(1)), VarStmt(Name("a"), Num(2)) >>) >>

\* a lone expression statement, which the prompt turns into a print
CoerceProgram == << ExpressionStmt(Binary(Num(1), Op("PLUS"), Num(2))) >>

In(family, args) == [family |-> family, args |-> args, coerce |-> FALSE]

ShadowVals == {1, 5, 6, 8}
ValIndex == 1..Len(Vals)
LoopArgs == {<<n, k, b>> : n \in 1..MaxLoop, k \in 0..MaxLoop, b \in 0..MaxLoop}
CallSeqs == UNION {[1..n -> {1, 2}] : n \in 0..MaxCalls}

TreeInputs ==
  {In("shadow", <<x, y, z>>) : x \in ShadowVals, y \in ShadowVals, z \in ShadowVals}
  \cup {In("rterr", <<k, kind>>) : k \in 0..NumStmts, kind \in 1..6}
  \cup {In("logical", <<op, a, b>>) : op \in {1, 2}, a \in ValIndex, b \in ValIndex}
  \cup {In("divide", <<a, b>>) : a \in ValIndex, b \in ValIndex}
  \cup {In("compound", <<form, op, a, b>>) :
          form \in {1, 2}, op \in 1..Len(CompoundOps), a \in ValIndex, b \in ValIndex}
  \cup {In("for", a) : a \in {l \in LoopArgs : l[2] <= l[1] /\ l[3] <= l[1]}}
  \cup {In("forvar", a) : a \in {l \in LoopArgs : l[2] <= l[1] /\ l[3] <= l[1]}}
  \cup {In("nested", <<n, m, k, kind>>) :
          n \in 1..2, m \in 1..MaxLoop, k \in 0..MaxLoop, kind \in {1, 2}}
  \cup {In("counter", c) : c \in CallSeqs}
  \cup {In("lexical", <<>>)}
  \cup {In("init", <<kind, nargs, v>>) : kind \in 0..3, nargs \in {0, 1}, v \in ShadowVals}
  \cup {In("property", <<v1, v2>>) : v1 \in ShadowVals, v2 \in ShadowVals}
  \cup {In("directinit", <<v1, v2>>) : v1 \in ShadowVals, v2 \in ShadowVals}
  \cup {In("undef", <<kind, place>>) : kind \in 1..12, place \in 1..3}
  \cup {In("selfinit", <<depth, shape, outer>>) :
          depth \in 0..MaxDepth, shape \in {1, 2}, outer \in {0, 1}}
  \cup {In("redeclare", <<depth, kind>>) : depth \in 0..MaxDepth, kind \in 1..8}
  \cup {In("misplaced", <<r, b, c, depth>>) :
          r \in {0, 1}, b \in {0, 1}, c \in {0, 1}, depth \in 0..MaxDepth}
  \cup {In("scopes", a) : a \in {b \in [1..6 -> {0, 1}] : b[4] + b[5] <= 1}}
  \cup {In("loopfunction", <<n, kind>>) : n \in 1..MaxLoop, kind \in {1, 2}}
  \cup {In("static", <<k>>) : k \in 1..5}
  \cup {[family |-> "coerce", args |-> <<>>, coerce |-> c] : c \in BOOLEAN}

LogicalOp(i) == IF i = 1 THEN "OR" ELSE "AND"

Program(in) ==
  LET a == in.args
  IN CASE in.family = "shadow" -> ShadowProgram(a[1], a[2], a[3])
       [] in.family = "rterr" -> RuntimeErrorProgram(a[1], a[2])
       [] in.family = "logical" -> LogicalProgram(LogicalOp(a[1]), a[2], a[3])
       [] in.family = "divide" -> DivideProgram(a[1], a[2])
       [] in.family = "compound" -> CompoundProgram(a[1], a[2], a[3], a[4])
       [] in.family = "for" -> ForProgram(a[1], a[2], a[3])
       [] in.family = "forvar" -> ForVarProgram(a[1], a[2], a[3])
       [] in.family = "nested" -> NestedProgram(a[1], a[2], a[3], a[4])
       [] in.family = "counter" -> CounterProgram(a)
       [] in.family = "lexical" -> LexicalProgram
       [] in.family = "init" -> InitProgram(a[1], a[2], a[3])
       [] in.family = "property" -> PropertyProgram(a[1], a[2])
       [] in.family = "directinit" -> DirectInitProgram(a[1], a[2])
       [] in.family = "undef" -> UndefProgram(a[1], a[2])
       [] in.family = "misplaced" -> MisplacedProgram(a[1], a[2], a[3], a[4])
       [] in.family = "redeclare" -> RedeclareProgram(a[1], a[2])
       [] in.family = "selfinit" -> SelfInitProgram(a[1], a[2], a[3])
       [] in.family = "scopes" -> ScopeProgram(a[1], a[2], a[3], a[4], a[5], a[6] + 1)
       [] in.family = "loopfunction" -> LoopFunctionProgram(a[1], a[2])
       [] in.family = "static" -> StaticErrorProgram(a[1])
       [] in.family = "coerce" -> CoerceProgram

-----------------------------------------------------------------------------
(* Source texts for Lox.run.  A text is written as a sequence of words; a   *)
(* word of several characters is spelled out, every other word is one       *)
(* character.                                                               *)

Spell(word) ==
  CASE word = "print" -> <<"p", "r", "i", "n", "t">>
    [] word = "var" -> <<"v", "a", "r">>
    [] word = "fun" -> <<"f", "u", "n">>
    [] word = "for" -> <<"f", "o", "r">>
    [] word = "return" -> <<"r", "e", "t", "u", "r", "n">>
    [] word = "nil" -> <<"n", "i", "l">>
    [] word = "or" -> <<"o", "r">>
    [] word = "and" -> <<"a", "n", "d">>
    [] word = "1.5" -> <<"1", ".", "5">>
    [] word = "12" -> <<"1", "2">>
    [] OTHER -> <<word>>

RECURSIVE Text(_)
Text(words) == IF words = <<>> THEN <<>> ELSE Spell(Head(words)) \o Text(Tail(words))

\* what may follow the slash of  print 6 / ...
SlashTails ==
  << <<"2", ";">>,                              \* print 6/2;
     <<" ", "2", ";">>,                         \* print 6/ 2;
     <<"\n", "2", ";">>,                        \* the divisor on the next line
     <<"0", ";">>,                              \* print 6/0;
     <<"\n", "0", ";">>,                        \* the zero on the next line
     <<"2", ";", " ", "print", " ", "1", ";">>, \* a statement after it on the line
     <<"2", ";", "\n", "print", " ", "1", ";">>,
     <<"/", "2", ";">>,                         \* print 6//2; a comment
     <<"/", "2", "\n", "/", "\n", "3", ";">> >> \* a comment, then  / 3;  on two lines

SlashSource(tail) == Text(<<"print", " ", "6", "/">> \o SlashTails[tail])

\* f called with n arguments separated by commas, f declared with n
\* parameters that it prints in order
ParamNames == <<"a", "b", "c", "d", "e", "g", "h", "i">>
ArgWords == <<"1", "2", "3", "4", "5", "6", "7", "8">>

RECURSIVE CommaList(_, _)
CommaList(words, n) ==
  IF n = 0 THEN <<>>
  ELSE IF n = 1 THEN <<words[1]>>
  ELSE CommaList(words, n - 1) \o <<",", " ", words[n]>>

RECURSIVE PrintAll(_, _)
PrintAll(words, n) ==
  IF n = 0 THEN <<>>
  ELSE PrintAll(words, n - 1) \o <<"print", " ", words[n], ";">>

CallSource(n) ==
  Text(<<"fun", " ", "f", "(">> \o CommaList(ParamNames, n) \o <<")", "{">>
       \o PrintAll(ParamNames, n) \o <<"}", "f", "(">> \o CommaList(ArgWords, n)
       \o <<")", ";">>)

\* sources with an error of the scanner, the parser or the resolver after a
\* first statement  print 1;
StaticErrorTails ==
  << <<"@">>,                                  \* Unexpected character
     <<"\"", "a", "b">>,                       \* Unterminated string
     <<"print", " ", ";">>,                    \* Expect expression
     <<"(", "1", ";">>,                        \* Expect ')' after expression
     <<"1", "=", "2", ";">>,                   \* Invalid assignment target
     <<"return", " ", "2", ";">>,              \* return at top level
     <<"{", "var", " ", "a", "=", "a", ";", "}">>,  \* own initializer
     <<"{", "var", " ", "a", ";", "var", " ", "a", ";", "}">>,
     <<"print", " ", "2", "/", "1", ";">> >>   \* the slash takes the ';'

StaticErrorSource(tail) == Text(<<"print", " ", "1", ";", " ">> \o StaticErrorTails[tail])

\* whole programs
Programs ==
  << <<"var", " ", "a", "=", "1", ";", "{", "var", " ", "a", "=", "2", ";",
       "print", " ", "a", ";", "}", "print", " ", "a", ";">>,
     <<"for", "(", "var", " ", "i", "=", "0", ";", "i", "<", "2", ";",
       "i", "=", "i", "+", "1", ")", "print", " ", "i", ";">>,
     <<"print", " ", "1.5", "+", "12", ";">>,
     <<"print", " ", "nil", " ", "or", " ", "2", ";">>,
     <<"print", " ", "1", " ", "and", " ", "2", ";">>,
     <<"print", " ", "\"", "a", "\"", "+", "1", ";", "print", " ", "-", "\"", "a", "\"", ";">>,
     <<"1", "+", "2", ";">>,
     <<"/", "/", " ", "c", "\n", "print", " ", "1", "<", "2", "=", "=", "!", "nil", ";">> >>

SourceInputs ==
  {In("slash", <<t>>) : t \in 1..Len(SlashTails)}
  \cup {In("call", <<n>>) : n \in 0..MaxArgs}
  \cup {In("staticsource", <<t>>) : t \in 1..Len(StaticErrorTails)}
  \cup {[family |-> "program", args |-> <<n>>, coerce |-> c] :
          n \in 1..Len(Programs), c \in BOOLEAN}

\* identifier-shaped lexemes, as characters: the entries of KEYWORDS, then
\* words that are no entries, then names of properties every object has
Words ==
  << <<"a", "n", "d">>,
     <<"c", "l", "a", "s", "s">>,
     <<"e", "l", "s", "e">>,
     <<"f", "a", "l", "s", "e">>,
     <<"f", "o", "r">>,
     <<"f", "u", "n">>,
     <<"i", "f">>,
     <<"n", "i", "l">>,
     <<"o", "r">>,
     <<"p", "r", "i", "n", "t">>,
     <<"r", "e", "t", "u", "r", "n">>,
     <<"s", "u", "p", "e", "r">>,
     <<"t", "h", "i", "s">>,
     <<"t", "r", "u", "e">>,
     <<"v", "a", "r">>,
     <<"w", "h", "i", "l", "e">>,
     <<"a">>,
     <<"x", "1">>,
     <<"_">>,
     <<"_", "a", "1">>,
     <<"A", "n", "d">>,
     <<"f", "o">>,
     <<"f", "o", "r", "t">>,
     <<"c", "l", "a", "s", "s", "y">>,
     <<"n", "i", "l", "l">>,
     <<"p", "r", "i", "n", "t", "e", "r">>,
     <<"c", "o", "n", "s", "t", "r", "u", "c", "t", "o", "r">>,
     <<"t", "o", "S", "t", "r", "i", "n", "g">>,
     <<"v", "a", "l", "u", "e", "O", "f">> >>

\* a lexeme alone (tail 0) or with a ';' after it (tail 1)
LexemeSource(i, tail) == Words[i] \o (IF tail = 1 THEN <<";">> ELSE <<>>)

Source(in) ==
  CASE in.family = "slash" -> SlashSource(in.args[1])
    [] in.family = "call" -> CallSource(in.args[1])
    [] in.family = "staticsource" -> StaticErrorSource(in.args[1])
    [] in.family = "program" -> Text(Programs[in.args[1]])
    [] in.family = "text" -> in.args
    [] in.family = "lexeme" -> in.args

\* Lox.run(source, coerce) with a new interpreter
Init ==
  /\ input \in SourceInputs
  /\ pc = "scan"
  /\ scanner = StartScanner(Source(input))
  /\ parser = NoParser
  /\ statements = <<>>
  /\ resolver = StartResolver(<<>>)
  /\ interp = NewInterpreter
  /\ idx = 1
  /\ hadError = FALSE
  /\ hadRuntimeError = FALSE
  /\ reports = <<>>
  /\ runtimeErrors = <<>>

Next == Scan \/ Parse \/ Resolve \/ Gate \/ Execute \/ Step \/ Catch \/ Finish

Spec == Init /\ [][Next]_vars

\* the characters of the texts handed to the scanner alone: one no token
\* starts with, the quote, the slash, a digit, the dot, a letter, the newline
ScanChars == {"@", "\"", "/", "1", ".", "a", "\n"}

\* every text of up to MaxSourceLen of these characters
ScanInputs ==
  {In("text", src) : src \in UNION {[1..n -> ScanChars] : n \in 0..MaxSourceLen}}
  \cup {In("lexeme", LexemeSource(i, tail)) : i \in 1..Len(Words), tail \in {0, 1}}

\* new Scanner(source) and scanner.scanTokens()
InitScan ==
  /\ input \in ScanInputs
  /\ pc = "scan"
  /\ scanner = StartScanner(Source(input))
  /\ parser = NoParser
  /\ statements = <<>>
  /\ resolver = StartResolver(<<>>)
  /\ interp = NewInterpreter
  /\ idx = 1
  /\ hadError = FALSE
  /\ hadRuntimeError = FALSE
  /\ reports = <<>>
  /\ runtimeErrors = <<>>

NextScan == Scan

SpecScan == InitScan /\ [][NextScan]_vars

\* resolve and interpret a tree with a new interpreter
InitTree ==
  /\ input \in TreeInputs
  /\ pc = "resolve"
  /\ scanner = NoScanner
  /\ parser = NoParser
  /\ statements = Program(input)
  /\ resolver = StartResolver(Program(input))
  /\ interp = NewInterpreter
  /\ idx = 1
  /\ hadError = FALSE
  /\ hadRuntimeError = FALSE
  /\ reports = <<>>
  /\ runtimeErrors = <<>>

NextTree == Resolve \/ Gate \/ Execute \/ Step \/ Catch \/ Finish

SpecTree == InitTree /\ [][NextTree]_vars

\* resolve a tree, then resolve it again with a new resolver
NextResolveTwice == Resolve \/ ResolveAnew \/ ResolveAgain

SpecResolveTwice == InitTree /\ [][NextResolveTwice]_vars

-----------------------------------------------------------------------------
(* Token sequences for the parser alone: 1 op1 2 op2 3 ; for every pair of  *)
(* binary operators, those included that the scanner has no character for.  *)

LadderOps ==
  <<"OR", "AND", "EQUAL_EQUAL", "BANG_EQUAL", "LESS", "LESS_EQUAL", "GREATER",
    "GREATER_EQUAL", "PLUS", "MINUS", "STAR", "SLASH", "PERCENT", "HAT">>

NumberToken(n) == Token("NUMBER", ToString(n), NumV(n), 1)

LadderTokens(op1, op2) ==
  <<NumberToken(1), Op(op1), NumberToken(2), Op(op2), NumberToken(3),
    Tok("SEMICOLON", ";"), Tok("EOF", "")>>

\* Token sequences with syntax errors: every sequence of at most MaxTokens
\* tokens of these types, closed by EOF.
ParseTypes == <<"PRINT", "NUMBER", "SEMICOLON", "PLUS", "LEFT_BRACE", "RIGHT_BRACE">>

TokenOf(type) ==
  CASE type = "NUMBER" -> NumberToken(1)
    [] type = "PRINT" -> Tok("PRINT", "print")
    [] type = "SEMICOLON" -> Tok("SEMICOLON", ";")
    [] type = "LEFT_BRACE" -> Tok("LEFT_BRACE", "{")
    [] type = "RIGHT_BRACE" -> Tok("RIGHT_BRACE", "}")
    [] OTHER -> Op(type)

TokenSeqs == UNION {[1..n -> 1..Len(ParseTypes)] : n \in 0..MaxTokens}

TypedTokens(types) ==
  [i \in 1..Len(types) + 1 |->
     IF i <= Len(types) THEN TokenOf(ParseTypes[types[i]]) ELSE Tok("EOF", "")]

\* item , item , ... with n items, item(i) being the i-th
Separated(n, item(_)) ==
  [i \in 1..(IF n = 0 THEN 0 ELSE 2 * n - 1) |->
     IF i % 2 = 1 THEN item((i + 1) \div 2) ELSE Op("COMMA")]

Parameter(i) == Name("p" \o ToString(i))

\* fun f ( p1 , ... , pn ) { }
ParametersTokens(n) ==
  <<Tok("FUN", "fun"), Name("f"), Tok("LEFT_PAREN", "(")>> \o
  Separated(n, Parameter) \o
  <<Op("RIGHT_PAREN"), Tok("LEFT_BRACE", "{"), Tok("RIGHT_BRACE", "}"), Tok("EOF", "")>>

\* f ( 1 , ... , n ) ;
ArgumentsTokens(n) ==
  <<Name("f"), Tok("LEFT_PAREN", "(")>> \o
  Separated(n, NumberToken) \o
  <<Op("RIGHT_PAREN"), Tok("SEMICOLON", ";"), Tok("EOF", "")>>

\* the left sides of the assignment inputs, by kind: a, a.f, a.f.g, a().f
\* and then 1, (a), a(), a + b
TargetTokens(kind) ==
  CASE kind = 1 -> <<Name("a")>>
    [] kind = 2 -> <<Name("a"), Tok("DOT", "."), Name("f")>>
    [] kind = 3 -> <<Name("a"), Tok("DOT", "."), Name("f"), Tok("DOT", "."), Name("g")>>
    [] kind = 4 -> <<Name("a"), Tok("LEFT_PAREN", "("), Op("RIGHT_PAREN"),
                     Tok("DOT", "."), Name("f")>>
    [] kind = 5 -> <<NumberToken(1)>>
    [] kind = 6 -> <<Tok("LEFT_PAREN", "("), Name("a"), Op("RIGHT_PAREN")>>
    [] kind = 7 -> <<Name("a"), Tok("LEFT_PAREN", "("), Op("RIGHT_PAREN")>>
    [] kind = 8 -> <<Name("a"), Op("PLUS"), Name("b")>>

\* the tree of the left side of kind
TargetNode(kind) ==
  CASE kind = 1 -> Ref(1, "a")
    [] kind = 2 -> GetExpr(Ref(1, "a"), Name("f"))
    [] kind = 3 -> GetExpr(GetExpr(Ref(1, "a"), Name("f")), Name("g"))
    [] kind = 4 -> GetExpr(Call0(Ref(1, "a")), Name("f"))
    [] kind = 5 -> Num(1)
    [] kind = 6 -> Grouping(Ref(2, "a"))
    [] kind = 7 -> Call0(Ref(1, "a"))
    [] kind = 8 -> Binary(Ref(1, "a"), Op("PLUS"), Ref(3, "b"))

\* LEFT = 2 ; print 3 ;
AssignmentTokens(kind) ==
  TargetTokens(kind) \o
  <<Op("EQUAL"), NumberToken(2), Tok("SEMICOLON", ";"),
    Tok("PRINT", "print"), NumberToken(3), Tok("SEMICOLON", ";"), Tok("EOF", "")>>

ParseInputs ==
  {In("ladder", <<i, j>>) : i \in 1..Len(LadderOps), j \in 1..Len(LadderOps)}
  \cup {In("tokens", types) : types \in TokenSeqs}
  \cup {In(family, <<n>>) : family \in {"parameters", "arguments"}, n \in 0..MaxEntries}
  \cup {In("target", <<kind>>) : kind \in 1..8}

ParseTokens(in) ==
  CASE in.family = "ladder" ->
         LadderTokens(LadderOps[in.args[1]], LadderOps[in.args[2]])
    [] in.family = "parameters" -> ParametersTokens(in.args[1])
    [] in.family = "arguments" -> ArgumentsTokens(in.args[1])
    [] in.family = "target" -> AssignmentTokens(in.args[1])
    [] OTHER -> TypedTokens(in.args)

\* parser.parse() on the tokens of the input
InitParse ==
  /\ input \in ParseInputs
  /\ pc = "parse"
  /\ scanner = NoScanner
  /\ parser = StartParser(ParseTokens(input))
  /\ statements = <<>>
  /\ resolver = StartResolver(<<>>)
  /\ interp = NewInterpreter
  /\ idx = 1
  /\ hadError = FALSE
  /\ hadRuntimeError = FALSE
  /\ reports = <<>>
  /\ runtimeErrors = <<>>

NextParse == Parse

SpecParse == InitParse /\ [][NextParse]_vars

-----------------------------------------------------------------------------
(* Properties *)

\* what print shows of a value
Display(value) == stringify(value).text

TokenTypes(tokens) == [i \in 1..Len(tokens) |-> tokens[i].type]

\* C1: once the scanner, the parser or the resolver has reported an error
\* for the source, the interpreter is never entered: no statement executes,
\* nothing is printed and no environment is touched.
C1_StaticErrorNeverInterprets ==
  (hadError \/ Len(reports) > 0) =>
    /\ pc \notin {"interpret", "hung"}
    /\ idx = 1
    /\ Len(interp.k) = 0
    /\ interp.out = <<>>
    /\ interp.envs = NewInterpreter.envs
    /\ ~hadRuntimeError

\* a run that ended on a static error although its first statement, print 1;,
\* was parsed and could have run
C1_Witness ==
  /\ pc = "done"
  /\ hadError
  /\ input.family = "staticsource"
  /\ Len(statements) >= 1
  /\ statements[1] = PrintStmt(Num(1))
  /\ interp.out = <<>>

\* C2: when statement i of interpret(statements) raises a RuntimeError, no
\* later statement is executed, the prints and assignments of the statements
\* before i remain, hadRuntimeError is set, and interpret returns.
C2_RuntimeErrorAbortsTheRest ==
  (input.family = "rterr" /\ input.args[1] >= 1) =>
    \* statement i is statements[i + 1], after the declaration of a
    /\ idx <= input.args[1] + 1
    /\ Len(interp.out) <= input.args[1] - 1
    /\ \A j \in 1..Len(interp.out) : interp.out[j] = DigitChars[j + 1]
    /\ pc # "hung"
    /\ pc = "done" =>
         /\ hadRuntimeError
         /\ Len(runtimeErrors) = 1
         /\ interp.sig = "RuntimeError"
         /\ Len(interp.out) = input.args[1] - 1
         /\ MapGet(interp.envs[Globals].values, "a") = NumV(input.args[1] - 1)

\* the second of three statements failed after the first had printed
C2_Witness ==
  /\ pc = "done"
  /\ input.family = "rterr"
  /\ input.args[1] = 2
  /\ hadRuntimeError
  /\ interp.out = <<"1">>
  /\ idx = 3

\* C3: a or b is a when a is truthy and b otherwise, a and b is a when a is
\* falsy and b otherwise, and b is evaluated only in the 'otherwise' case.
\* The program prints the expression, whose right operand assigns t, and
\* then t.
C3_LogicalOperators ==
  (input.family = "logical" /\ pc = "done") =>
    LET a == Vals[input.args[2]]
        b == Vals[input.args[3]]
        falsy == a \in {Nil, BoolV(FALSE), NumV(0)}
        left == IF input.args[1] = 1 THEN ~falsy ELSE falsy
    IN IF left THEN interp.out = <<Display(a), "unset">>
       ELSE interp.out = <<Display(b), Display(b)>>

\* C4: a '/' that no second '/' follows gives one SLASH token and takes
\* nothing more, so what follows it on the line is scanned as usual; only
\* '//' skips the rest of the line.
C4_SlashConsumesOnlyItself ==
  (input.family = "slash" /\ pc # "scan") =>
    TokenTypes(scanner.tokens) =
      <<"PRINT", "NUMBER">> \o
      (CASE input.args[1] \in 1..5 -> <<"SLASH", "NUMBER", "SEMICOLON">>
         [] input.args[1] \in 6..7 ->
              <<"SLASH", "NUMBER", "SEMICOLON", "PRINT", "NUMBER", "SEMICOLON">>
         [] input.args[1] = 8 -> <<>>
         [] OTHER -> <<"SLASH", "NUMBER", "SEMICOLON">>)
      \o <<"EOF">>

\* C5: a '/' of two numbers with right operand 0 raises 'Cannot divide by
\* zero.', and the print it stands in prints nothing; with an operand that
\* is no number 'Operands must be numbers' is raised instead, also when the
\* right operand is 0.
C5_DivideByZero ==
  (input.family = "divide" /\ pc = "done") =>
    LET a == Vals[input.args[1]]
        b == Vals[input.args[2]]
    IN IF a.t = "num" /\ b.t = "num"
       THEN IF b = NumV(0)
            THEN /\ runtimeErrors = <<"Cannot divide by zero.">>
                 /\ hadRuntimeError
                 /\ interp.out = <<>>
            ELSE /\ runtimeErrors = <<>>
                 /\ Len(interp.out) = 2
                 /\ interp.out[2] = "after"
       ELSE /\ runtimeErrors = <<"Operands must be numbers">>
            /\ hadRuntimeError
            /\ interp.out = <<>>

\* print 1 / 0; ended with the dedicated error and no output
C5_Witness ==
  /\ pc = "done"
  /\ input.family = "divide"
  /\ Vals[input.args[1]] = NumV(1)
  /\ Vals[input.args[2]] = NumV(0)
  /\ runtimeErrors = <<"Cannot divide by zero.">>
  /\ interp.out = <<>>

\* C6: f(a1, ..., an) with n arguments separated by commas parses to a Call
\* with n arguments, so that calling f, declared with n parameters, passes
\* the check of the arity and binds parameter i to argument i: f prints its
\* parameters in order.
C6_CallArguments ==
  (input.family = "call" /\ input.args[1] >= 1) =>
    /\ pc \notin {"scan", "parse"} =>
         /\ Len(statements) = 2
         /\ statements[2].kind = "Expression"
         /\ statements[2].expression.kind = "Call"
         /\ Len(statements[2].expression.args) = input.args[1]
    /\ pc = "done" =>
         /\ ~hadRuntimeError
         /\ interp.out = [i \in 1..input.args[1] |-> ArgWords[i]]

\* C7: the increment of a for loop runs after every iteration of the body
\* and before the next check of the condition, also when the body ended
\* with continue.  The condition prints chk and the increment inc: every
\* check but the first follows an increment.
C7_IncrementAfterEveryIteration ==
  input.family = "for" =>
    \A j \in 2..Len(interp.out) :
      interp.out[j] = "chk" => interp.out[j - 1] = "inc"

\* the level of an operator in the ladder, lowest first
LadderLevel(type) ==
  CASE type = "OR" -> 1
    [] type = "AND" -> 2
    [] type \in {"EQUAL_EQUAL", "BANG_EQUAL"} -> 3
    [] type \in {"LESS", "LESS_EQUAL", "GREATER", "GREATER_EQUAL"} -> 4
    [] type \in {"PLUS", "MINUS"} -> 5
    [] type \in {"STAR", "SLASH"} -> 6
    [] type = "PERCENT" -> 7
    [] type = "HAT" -> 8

LadderNode(type, left, right) ==
  IF type \in {"OR", "AND"} THEN Logical(left, Op(type), right)
  ELSE Binary(left, Op(type), right)

\* C8: of two binary operators of different levels the one of the higher
\* level becomes the child of the other, whichever comes first in the
\* source; two of the same level associate to the left.
C8_PrecedenceLadder ==
  (input.family = "ladder" /\ pc = "resolve") =>
    LET op1 == LadderOps[input.args[1]]
        op2 == LadderOps[input.args[2]]
    IN /\ ~hadError
       /\ statements =
            << ExpressionStmt(
                 IF LadderLevel(op2) > LadderLevel(op1)
                 THEN LadderNode(op1, Num(1), LadderNode(op2, Num(2), Num(3)))
                 ELSE LadderNode(op2, LadderNode(op1, Num(1), Num(2)), Num(3))) >>

\* 1 + 2 * 3 parsed to Binary(1, +, Binary(2, *, 3))
C8_Witness ==
  /\ pc = "resolve"
  /\ input.family = "ladder"
  /\ LadderOps[input.args[1]] = "PLUS"
  /\ LadderOps[input.args[2]] = "STAR"
  /\ statements =
       << ExpressionStmt(Binary(Num(1), Op("PLUS"),
                                Binary(Num(2), Op("STAR"), Num(3)))) >>

\* C9: a var inside a block binds the name in the block's own environment
\* only: reads in the block see the inner value, and after the block the
\* name has, in every enclosing environment, the value it had before.
C9_BlockShadowing ==
  (input.family = "shadow" /\ pc = "done") =>
    /\ interp.out = << Display(Vals[input.args[2]]), Display(Vals[input.args[3]]),
                       Display(Vals[input.args[2]]), Display(Vals[input.args[1]]) >>
    /\ MapGet(interp.envs[Globals].values, "a") = Vals[input.args[1]]
    /\ interp.environment = Globals

\* var a = 1; { var a = 2; print a; { var a = nil; ... } print a; } print a;
\* printed 2 inside and 1 after the block
C9_Witness ==
  /\ pc = "done"
  /\ input.family = "shadow"
  /\ Vals[input.args[1]] = NumV(1)
  /\ Vals[input.args[2]] = NumV(2)
  /\ interp.out[1] = "2"
  /\ interp.out[4] = "1"

\* C10: the environment of a call has the function's closure as its parent,
\* not the caller's environment; two counters made by two calls of the
\* factory count apart, each strictly upwards, and a function reads the
\* variables of the place it was declared in.
C10_CallEnvironmentIsClosure ==
  /\ \A i \in 1..(Len(interp.k) - 1) :
       (interp.k[i].fn = "LoxFunction_call" /\ interp.k[i + 1].fn = "executeBlock") =>
         interp.envs[interp.k[i + 1].tmp[1]].enclosing = interp.k[i].tmp[1].closure
  /\ (input.family = "counter" /\ pc = "done") =>
       interp.out = [j \in 1..Len(input.args) |->
                       DigitChars[Cardinality({i \in 1..j : input.args[i] = input.args[j]}) + 1]]
  /\ (input.family = "lexical" /\ pc = "done") => interp.out = <<"outer">>

\* c1(), c2(), c1() printed 1, 1, 2
C10_Witness ==
  /\ pc = "done"
  /\ input.family = "counter"
  /\ input.args = <<1, 2, 1>>
  /\ interp.out = <<"1", "1", "2">>

\* n copies of seq, one after the other
RECURSIVE Times(_, _)
Times(seq, n) == IF n = 0 THEN <<>> ELSE seq \o Times(seq, n - 1)

\* what one run of the inner loop prints: 1..M up to the break, or but the
\* number at which it continued
InnerLines(M, K, kind) ==
  LET shown == SelectSeq([j \in 1..M |-> j],
                         LAMBDA j : IF kind = 1 THEN K = 0 \/ j < K ELSE j # K)
  IN [i \in 1..Len(shown) |-> Display(NumV(shown[i]))]

\* C11: break in the body of an inner while ends that loop only and
\* continue goes to that loop's next check only: every iteration of the
\* enclosing loop goes on with the statement after the inner loop, and when
\* that statement starts the current environment is the environment of the
\* enclosing loop's body.
C11_BreakLeavesInnerLoopOnly ==
  input.family = "nested" =>
    /\ (Len(interp.k) >= 2 /\ interp.sig = "Normal"
        /\ Top(interp).node = PrintStmt(Ref(7, "tag"))) =>
         /\ interp.k[Len(interp.k) - 1].fn = "executeBlock"
         /\ interp.environment = interp.k[Len(interp.k) - 1].tmp[1]
         /\ MapHas(interp.envs[interp.environment].values, "tag")
         /\ interp.envs[interp.environment].enclosing = Globals
    /\ pc = "done" =>
         /\ ~hadRuntimeError
         /\ runtimeErrors = <<>>
         /\ interp.out =
              Times(InnerLines(input.args[2], input.args[3], input.args[4])
                    \o <<"outer">>, input.args[1]) \o <<"end">>

\* two turns of the outer loop, the inner loop of three left by break at 2:
\* 1 outer 1 outer end
C11_Witness ==
  /\ pc = "done"
  /\ input.family = "nested"
  /\ input.args = <<2, 3, 2, 1>>
  /\ interp.out = <<"1", "outer", "1", "outer", "end">>

\* C12: calling a class returns the new instance whatever init does: init,
\* when the class has one, runs once, with this bound to that instance and
\* with the arguments of the call, and what it returns (by running to its
\* end, by return; or by return "r";) is dropped.  The class takes as many
\* arguments as init has parameters, none when it has no init: a call with
\* another number is a runtime error and makes no instance.
C12_ClassCallReturnsInstance ==
  (input.family = "init" /\ pc = "done") =>
    LET kind == input.args[1]
        nargs == input.args[2]
        arity == IF kind = 0 THEN 0 ELSE 1
    IN IF nargs # arity
       THEN /\ interp.out = <<>>
            /\ interp.objs = <<>>
            /\ runtimeErrors = << "Expected " \o ToString(arity)
                                  \o " arguments, but got " \o ToString(nargs) \o "." >>
       ELSE /\ runtimeErrors = <<>>
            /\ Len(interp.objs) = 1
            /\ MapGet(interp.envs[Globals].values, "t") = InstanceRef(1, "Thing")
            /\ interp.objs[1].fields =
                 IF kind = 0 THEN EmptyMap ELSE <<<<"x", Vals[input.args[3]]>>>>
            /\ interp.out =
                 IF kind = 0 THEN <<"<instance of Thing>">>
                 ELSE <<"init", "<instance of Thing>", Display(Vals[input.args[3]])>>

\* Thing(2) with an init that ends with return "r"; gave the instance, with
\* field x = 2
C12_Witness ==
  /\ pc = "done"
  /\ input.family = "init"
  /\ input.args = <<3, 1, 6>>
  /\ interp.out = <<"init", "<instance of Thing>", "2">>

\* C13: a property read on an instance gives the instance's field of that
\* name when there is one, also when the class has a method of that name;
\* else the class's method of that name bound to the instance, so that this
\* in its body is the instance it was read from, also when the method is
\* kept in a variable and called later; else it raises the runtime error
\* that names the property.
C13_PropertyAccess ==
  (input.family = "property" /\ pc = "done") =>
    /\ interp.out = << Display(Vals[input.args[1]]), Display(Vals[input.args[2]]),
                       "method", Display(Vals[input.args[2]]), "method" >>
    /\ hadRuntimeError
    /\ runtimeErrors = <<"Undefined property \"missing\".">>

\* t = Thing(2), u = Thing("a"): g = t.get; g() gave 2, u.get() gave a, and
\* t.tag gave the field once it was set
C13_Witness ==
  /\ pc = "done"
  /\ input.family = "property"
  /\ input.args = <<6, 8>>
  /\ interp.out = <<"2", "a", "method", "a", "method">>

\* C20: init called on an instance, t.init(V), whose body runs to its end
\* returns the instance this is bound to, not nil.
C20_DirectInitReturnsThis ==
  (input.family = "directinit" /\ pc = "done") =>
    interp.out = <<"<instance of Thing>", Display(Vals[input.args[2]])>>

\* C14: a second pass of a new resolver over the same statements leaves the
\* interpreter's locals map as the first pass left it, at every step of the
\* second pass and so at its end; and every pass ends with no scope on the
\* stack and with the enclosing function and the enclosing loop back at NONE.
C14_ResolveTwice ==
  [][/\ pc = "resolve again" => interp'.locals = interp.locals
     /\ (pc \in {"resolve", "resolve again"} /\ pc' # pc) =>
          /\ resolver'.scopes = <<>>
          /\ resolver'.currentFunction = "NONE"
          /\ resolver'.currentLoop = "NONE"]_vars

\* the second pass over the counter program has ended; the locals hold the
\* distances of i in count (1) and of count in makeCounter (0)
C14_Witness ==
  /\ pc = "done"
  /\ input.family = "counter"
  /\ resolver.scopes = <<>>
  /\ MapGet(interp.locals, 1) = 1
  /\ MapGet(interp.locals, 4) = 0

\* the kind and the text of every token of a sequence
Lexemes(tokens) == [i \in 1..Len(tokens) |-> <<tokens[i].type, tokens[i].lexeme>>]

\* character i of the text is in a line comment: two slashes stand before it
\* on its line (for a text without strings)
InComment(source, i) ==
  \E j \in 1..(i - 2) :
    /\ source[j] = "/" /\ source[j + 1] = "/"
    /\ \A m \in j..(i - 1) : source[m] # "\n"

WithoutEof(tokens) == SubSeq(tokens, 1, Len(tokens) - 1)

Quotes(source) == {i \in 1..Len(source) : source[i] = "\""}

\* C15: scanTokens ends on every text: every turn of its loop takes at
\* least one character and none goes more than one past the end.  What it
\* returns ends with one end-of-input token, the only one in it.  An unknown
\* character outside comments sets the static-error flag and the scan goes
\* on: the tokens are those of the text before the character followed by
\* those of the text after it.  A string that is opened outside comments and
\* never closed sets the flag as well.
C15_ScanEndsWithOneEof ==
  [][pc = "scan" =>
       /\ scanner'.current <= Len(scanner.source) + 1
       /\ pc' = "scan" => scanner'.current > scanner.current
       /\ pc' = "parse" =>
            /\ Len(scanner'.tokens) >= 1
            /\ \A i \in 1..Len(scanner'.tokens) :
                 scanner'.tokens[i].type = "EOF" <=> i = Len(scanner'.tokens)
            /\ Quotes(scanner.source) = {} =>
                 \A i \in 1..Len(scanner.source) :
                   (scanner.source[i] = "@" /\ ~InComment(scanner.source, i)) =>
                     /\ hadError'
                     /\ Lexemes(scanner'.tokens) =
                          Lexemes(WithoutEof(
                            ScanText(SubSeq(scanner.source, 1, i - 1)).tokens))
                          \o Lexemes(ScanText(SubSeq(scanner.source, i + 1,
                                                     Len(scanner.source))).tokens)
            /\ \A i \in 1..Len(scanner.source) :
                 (Quotes(scanner.source) = {i} /\ ~InComment(scanner.source, i))
                   => hadError']_vars

-----------------------------------------------------------------------------
\* the keywords synchronize() stops in front of
SyncKeywords == {"CLASS", "FUN", "VAR", "FOR", "IF", "WHILE", "PRINT", "RETURN"}

\* a parser at position j of tokens is where synchronize() stops
SyncStop(tokens, j) ==
  \/ tokens[j + 1].type = "EOF"
  \/ tokens[j].type = "SEMICOLON"
  \/ tokens[j + 1].type \in SyncKeywords

\* from position c, where the error was thrown, to is the first position
\* after c where synchronize() stops; at EOF nothing is left to discard
SyncedAt(tokens, c, to) ==
  IF tokens[c + 1].type = "EOF" THEN to = c
  ELSE /\ to > c
       /\ SyncStop(tokens, to)
       /\ \A j \in (c + 1)..(to - 1) : ~SyncStop(tokens, j)

\* the types of a sequence of PLUS and RIGHT_BRACE tokens, which starts no
\* declaration, then maybe a semicolon, then print 1 ;
JunkThenPrint(types) ==
  /\ Len(types) >= 4
  /\ SubSeq(types, Len(types) - 2, Len(types)) = <<1, 2, 3>>
  /\ \A i \in 1..(Len(types) - 4) : ParseTypes[types[i]] \in {"PLUS", "RIGHT_BRACE"}
  /\ ParseTypes[types[Len(types) - 3]] \in {"PLUS", "RIGHT_BRACE", "SEMICOLON"}

\* C16: a syntax error is reported when it is thrown; declaration() catches
\* it, discards tokens up to the first position where a semicolon has just
\* been consumed or a statement keyword (or EOF) is next, and returns null to
\* its caller, which goes on parsing normally: after junk tokens a following
\* print 1 ; becomes its Print statement.  Every call of declaration()
\* returns with the parser further than at the call, the parser never moves
\* past the EOF token, and the statements that parse() has collected are
\* never more than the tokens consumed.
C16_SynchronizeAndProgress ==
  [][pc = "parse" =>
       /\ parser'.current < Len(parser.tokens)
       /\ Len(parser'.k) >= 1 => Len(parser'.k[1].tmp) <= parser'.current
       /\ (parser.sig = "Normal" /\ parser'.sig = "ParseError") =>
            /\ hadError'
            /\ Len(reports') = Len(reports) + 1
            /\ parser'.current = parser.current
       /\ (parser.sig = "ParseError" /\ Top(parser).fn = "declaration") =>
            /\ hadError
            /\ SyncedAt(parser.tokens, parser.current, parser'.current)
            /\ parser'.sig = "Normal"
            /\ parser'.v = Null
            /\ parser'.k = SubSeq(parser.k, 1, Len(parser.k) - 1)
       /\ (Top(parser).fn = "declaration" /\ Len(parser'.k) < Len(parser.k)) =>
            parser'.current > Top(parser).tmp[1].current
       /\ (pc' = "resolve" /\ input.family = "tokens" /\ JunkThenPrint(input.args)) =>
            /\ statements' = <<Null, PrintStmt(Num(1))>>
            /\ hadError'
            /\ Len(reports') = 1]_vars

\* parse() has returned for } print 1 ; : the error at the brace was
\* reported, the brace was discarded and the Print statement was parsed
C16_Witness ==
  /\ pc = "resolve"
  /\ input.family = "tokens"
  /\ input.args = <<6, 1, 2, 3>>
  /\ hadError
  /\ statements = <<Null, PrintStmt(Num(1))>>
  /\ parser.current = 4

-----------------------------------------------------------------------------
\* the binding tables of all environments
BindingTables(envs) == [e \in 1..Len(envs) |-> envs[e].values]

\* C17: a read of a name that no reachable environment binds, and a plain or
\* compound assignment to it, throws a RuntimeError: the run ends with the
\* error reported once and nothing printed after it.  The step that throws
\* and the steps that unwind leave the binding tables of all environments
\* as they were, and no environment gets a binding of the name.
C17_UndefinedVariable ==
  [][(input.family = "undef" /\ pc = "interpret") =>
       /\ (interp'.sig = "RuntimeError" \/ interp.sig = "RuntimeError") =>
            /\ BindingTables(interp'.envs) = BindingTables(interp.envs)
            /\ Len(interp'.envs) = Len(interp.envs)
       /\ \A e \in 1..Len(interp'.envs) :
            MapHas(interp'.envs[e].values, UndefName(input.args[1])) =>
              /\ input.args[1] >= 7
              /\ e = 2
              /\ MapGet(interp'.envs[e].values, "gone") = NumV(1)
       /\ pc' = "done" =>
            /\ hadRuntimeError'
            /\ Len(runtimeErrors') = 1
            /\ interp'.out = <<>>]_vars

\* undef += 1; in the body of a called function has thrown: the run is over
\* with the error reported, a and b still bound as declared
C17_Witness ==
  /\ pc = "done"
  /\ input.family = "undef"
  /\ input.args = <<3, 3>>
  /\ hadRuntimeError
  /\ interp.sig = "RuntimeError"
  /\ MapGet(interp.envs[Globals].values, "a") = NumV(0)
  /\ \E e \in 1..Len(interp.envs) : MapHas(interp.envs[e].values, "b")

-----------------------------------------------------------------------------
\* C18: a list of n parameters or n call arguments is parsed without a
\* report when n <= 8 and with the error flag set when n > 8; either way the
\* declaration or call is not given up: parse() returns one statement, the
\* Function or Call node with all n entries, having consumed every token.
C18_ListsOfMoreThanEight ==
  (input.family \in {"parameters", "arguments"} /\ pc = "resolve") =>
    LET n == input.args[1]
    IN /\ hadError <=> n > 8
       /\ parser.current = Len(parser.tokens) - 1
       /\ Len(statements) = 1
       /\ IF input.family = "parameters"
          THEN /\ statements[1].kind = "Function"
               /\ statements[1].params = [i \in 1..n |-> Parameter(i)]
          ELSE /\ statements[1].kind = "Expression"
               /\ statements[1].expression.kind = "Call"
               /\ statements[1].expression.args = [i \in 1..n |-> Num(i)]

-----------------------------------------------------------------------------
\* C19: while a program that the resolver accepted runs, a pending Break or
\* Continue signal is never the one LoxFunction.call has to handle, which
\* would take it out of the call, and never leaves the last statement
\* frame, which would take it to the catch of interpret().
C19_BreakStaysInsideItsFunction ==
  (pc = "interpret" /\ ~hadError /\ interp.sig \in {"Break", "Continue"}) =>
    /\ Len(interp.k) > 0
    /\ Top(interp).fn # "LoxFunction_call"

-----------------------------------------------------------------------------
\* the scopes of the stack, counted from 1 at the bottom, that have the name
ScopesWith(scopes, lexeme) == {i \in 1..Len(scopes) : MapHas(scopes[i], lexeme)}

Greatest(S) == CHOOSE i \in S : \A j \in S : j <= i

\* C21: when the visit of a Variable or Assign node returns, locals has for
\* the node the number of scopes above the innermost scope with the name, and
\* no entry when no scope has it; an entry once made is never changed by what
\* the resolver does later.  In the scope programs the two references in the
\* innermost block get 3 minus the level of the nearest earlier declaration
\* in a block, and the declaration after them changes nothing.
C21_ResolvedDistance ==
  [][pc = "resolve" =>
       /\ \A i \in 1..Len(interp.locals) :
            /\ Len(interp'.locals) >= i
            /\ interp'.locals[i] = interp.locals[i]
       /\ (Top(resolver).fn \in {"Variable", "Assign"}
             /\ Len(resolver'.k) < Len(resolver.k)) =>
            LET id == Top(resolver).node.id
                with == ScopesWith(resolver.scopes, Top(resolver).node.name.lexeme)
            IN IF with = {} THEN ~MapHas(interp'.locals, id)
               ELSE /\ MapHas(interp'.locals, id)
                    /\ MapGet(interp'.locals, id) = Len(resolver.scopes) - Greatest(with)
       /\ (input.family = "scopes" /\ pc' = "gate") =>
            LET a == input.args
                near == IF a[4] = 1 THEN 3 ELSE IF a[3] = 1 THEN 2
                        ELSE IF a[2] = 1 THEN 1 ELSE 0
            IN /\ \A id \in {1, 2} :
                    IF near = 0 THEN ~MapHas(interp'.locals, id)
                    ELSE MapGet(interp'.locals, id) = 3 - near
               /\ a[5] = 1 => MapGet(interp'.locals, 3) = 0
               /\ ~hadError']_vars

\* { var x = 1; { { print x; x = 7; var x = 9; print x; } } } is resolved:
\* the first two references are two scopes away, the last is in its own
C21_Witness ==
  /\ pc = "gate"
  /\ input.family = "scopes"
  /\ input.args = <<0, 1, 0, 0, 1, 0>>
  /\ MapGet(interp.locals, 1) = 2
  /\ MapGet(interp.locals, 2) = 2
  /\ MapGet(interp.locals, 3) = 0

-----------------------------------------------------------------------------
\* the interpreter is about to read the variable of a Variable node or to
\* write the variable of an Assign node whose value has been evaluated
AtVariableAccess ==
  /\ pc = "interpret"
  /\ Len(interp.k) > 0
  /\ interp.sig = "Normal"
  /\ \/ Top(interp).fn = "Variable"
     \/ Top(interp).fn = "Assign" /\ Top(interp).at # 0

\* C22: when the interpreter reads or writes the variable of a node that has
\* a distance in locals, the environment that many enclosing links from the
\* current one exists and has a binding of the name already, so getAt gives
\* no undefined and assignAt makes no new binding.
C22_ResolvedBindingExists ==
  (AtVariableAccess /\ MapHas(interp.locals, Top(interp).node.id)) =>
    LET a == Environment_ancestor(interp.envs, interp.environment,
                                  MapGet(interp.locals, Top(interp).node.id))
    IN /\ a # 0
       /\ MapHas(interp.envs[a].values, Top(interp).node.name.lexeme)

\* in  { { var x = 2; { print x; x = 7; var x = 9; print x; } } }  the
\* assignment is about to write x one environment up, where x is 2
C22_Witness ==
  /\ AtVariableAccess
  /\ input.family = "scopes"
  /\ input.args = <<0, 0, 1, 0, 1, 0>>
  /\ Top(interp).fn = "Assign"
  /\ MapGet(interp.locals, Top(interp).node.id) = 1
  /\ MapGet(interp.envs[interp.envs[interp.environment].enclosing].values, "x") = NumV(2)

-----------------------------------------------------------------------------
\* C23 as stated: var a = a; is a static error at every depth, depth 0
\* included, and nothing of the program runs.
C23_SelfInitializerAtAnyDepth ==
  (input.family = "selfinit" /\ pc = "done") =>
    /\ hadError
    /\ interp.out = <<>>

\* C23: var a = a; inside one or more scopes (blocks, or a function body) is
\* reported once by the resolver, whether or not an enclosing scope has an a,
\* and nothing of the program runs.  At top level no scope is on the stack,
\* nothing is reported and the program runs: the read of a throws a
\* RuntimeError unless a global a exists already.
C23_SelfInitializerInsideAScope ==
  (input.family = "selfinit" /\ pc = "done") =>
    IF input.args[1] >= 1
    THEN /\ hadError
         /\ Len(reports) = 1
         /\ interp.out = <<>>
         /\ ~hadRuntimeError
    ELSE /\ ~hadError
         /\ interp.out = <<"ran">>
         /\ hadRuntimeError <=> input.args[3] = 0

\* var a = 1; { { var a = a; } } was rejected and did not run
C23_Witness ==
  /\ pc = "done"
  /\ input.family = "selfinit"
  /\ input.args = <<2, 1, 1>>
  /\ hadError
  /\ interp.out = <<>>

-----------------------------------------------------------------------------
\* C24 as stated: two declarations of a name in one scope, the top level
\* included, are a static error; a second declaration in a scope inside the
\* scope of the first is not.
C24_RedeclarationInAnyScope ==
  (input.family = "redeclare" /\ pc = "gate") => (hadError <=> input.args[2] <= 5)

\* C24: two declarations of a name (var, fun or parameter, in any pairing)
\* in one scope of the resolver's stack, a block or a function's parameters
\* and body, are reported, once; a second declaration in a scope inside the
\* scope of the first is accepted.  The top level is no scope of the stack:
\* two declarations of a global are accepted.
C24_RedeclarationInALocalScope ==
  (input.family = "redeclare" /\ pc = "gate") =>
    LET depth == input.args[1]
        kind == input.args[2]
        same == kind \in {4, 5} \/ (kind \in {1, 2, 3} /\ depth >= 1)
    IN /\ hadError <=> same
       /\ Len(reports) = IF same THEN 1 ELSE 0

\* { var a = 1; fun a() {} } has been resolved, with the error reported
C24_Witness ==
  /\ pc = "gate"
  /\ input.family = "redeclare"
  /\ input.args = <<1, 3>>
  /\ hadError
  /\ Len(reports) = 1

-----------------------------------------------------------------------------
\* the messages of the reports, in the order they were made
Messages(rs) == [i \in 1..Len(rs) |-> rs[i].message]

\* C25: a return outside a function, a break and a continue outside a loop
\* are each reported, in the order they stand, and hadError is set iff there
\* is one; the pass goes on to the statements after them: the reference in
\* the block that follows them gets its entry in locals.
C25_MisplacedJumpsAreAllReported ==
  (input.family = "misplaced" /\ pc = "gate") =>
    /\ Messages(reports) =
         Opt(input.args[1], "Cannot return from top-level code.") \o
         Opt(input.args[2], "Cannot use \"break\" outside of a loop.") \o
         Opt(input.args[3], "Cannot use \"continue\" outside of a loop.")
    /\ hadError <=> input.args[1] + input.args[2] + input.args[3] > 0
    /\ MapHas(interp.locals, 1)
    /\ MapGet(interp.locals, 1) = 0
    /\ resolver.scopes = <<>>

\* return 1; break; continue; { var z = 1; print z; } has been resolved:
\* three reports, and z resolved in its block
C25_Witness ==
  /\ pc = "gate"
  /\ input.family = "misplaced"
  /\ input.args = <<1, 1, 1, 0>>
  /\ Len(reports) = 3
  /\ hadError
  /\ MapGet(interp.locals, 1) = 0

-----------------------------------------------------------------------------
\* C26: a step of the interpreter changes the field table of an instance only
\* when it is the write of a Set expression on that instance, and then to
\* the table with the one field set to the value; every other instance, the
\* class held by each instance and every class bound in an environment stay
\* as they are.  In the property program t gets the field tag, which is the
\* name of a method, and u and the class's methods are untouched.
C26_FieldWriteTouchesOneInstance ==
  [][pc = "interpret" =>
       /\ Len(interp'.objs) >= Len(interp.objs)
       /\ \A i \in 1..Len(interp.objs) :
            /\ interp'.objs[i].klass = interp.objs[i].klass
            /\ interp'.objs[i].fields # interp.objs[i].fields =>
                 /\ Top(interp).fn = "Set"
                 /\ Top(interp).at = 2
                 /\ Top(interp).tmp[1].ref = i
                 /\ interp'.objs[i].fields =
                      MapSet(interp.objs[i].fields, Top(interp).node.name.lexeme, interp.v)
       /\ \A e \in 1..Len(interp.envs) : \A j \in 1..Len(interp.envs[e].values) :
            interp.envs[e].values[j][2].t = "class" =>
              interp'.envs[e].values[j] = interp.envs[e].values[j]
       /\ (input.family = "property" /\ pc' = "done") =>
            /\ interp'.objs[1].fields =
                 << <<"x", Vals[input.args[1]]>>, <<"tag", Vals[input.args[2]]>> >>
            /\ interp'.objs[2].fields = << <<"x", Vals[input.args[2]]>> >>
            /\ \A i \in {1, 2} : \A m \in {"init", "get", "tag"} :
                 MapHas(interp'.objs[i].klass.methods, m)]_vars

\* the property program is over: t has the fields x and tag, u only x
C26_Witness ==
  /\ pc = "done"
  /\ input.family = "property"
  /\ Len(interp.objs) = 2
  /\ MapHas(interp.objs[1].fields, "tag")
  /\ ~MapHas(interp.objs[2].fields, "tag")
  /\ MapHas(interp.objs[2].klass.methods, "tag")

-----------------------------------------------------------------------------
-----------------------------------------------------------------------------
\* the members of the enumeration TokenType
TokenType ==
  {"LEFT_PAREN", "RIGHT_PAREN", "LEFT_BRACE", "RIGHT_BRACE", "COMMA", "DOT",
   "MINUS", "PLUS", "SEMICOLON", "SLASH", "STAR", "PERCENT", "HAT",
   "BANG", "BANG_EQUAL", "EQUAL", "EQUAL_EQUAL", "GREATER", "GREATER_EQUAL",
   "LESS", "LESS_EQUAL", "PLUS_EQUAL", "MINUS_EQUAL", "STAR_EQUAL", "SLASH_EQUAL",
   "IDENTIFIER", "STRING", "NUMBER",
   "AND", "BREAK", "CLASS", "CONTINUE", "ELSE", "FALSE", "FUN", "FOR", "IF", "NIL",
   "OR", "PRINT", "RETURN", "SUPER", "THIS", "TRUE", "VAR", "WHILE", "EOF"}

\* the kind the keyword table gives to text, IDENTIFIER when it has no entry
KindOf(text) ==
  IF \E e \in 1..Len(KEYWORDS) : KEYWORDS[e][1] = text
  THEN KEYWORDS[CHOOSE e \in 1..Len(KEYWORDS) : KEYWORDS[e][1] = text][2]
  ELSE "IDENTIFIER"

\* the first token of the scanned lexeme input is the lexeme with the kind
\* of the table
LexemeClassified ==
  (input.family = "lexeme" /\ Len(scanner.tokens) >= 1) =>
    LET word == SelectSeq(input.args, isAlphaNumeric)
        text == Join(word, 0, Len(word))
    IN /\ scanner.tokens[1].lexeme = text
       /\ scanner.tokens[1].type = KindOf(text)

\* C28: an identifier-shaped lexeme that is an entry of the keyword table is
\* scanned to a token of the entry's kind and any other one to an IDENTIFIER,
\* and the kind of every token the scanner has emitted is a member of
\* TokenType.
C28_IdentifiersAndKeywords ==
  /\ LexemeClassified
  /\ \A t \in 1..Len(scanner.tokens) : scanner.tokens[t].type \in TokenType

-----------------------------------------------------------------------------
\* what the binary operator op gives for the values a and b: a value, or a
\* RuntimeError with its message
BinaryResult(op, a, b) ==
  BinaryOp(Push(NewInterpreter, Frame("visitBinaryExpr", Null, <<>>)),
           Op(CompoundOps[op]), a, b)

\* the run has ended as  x = x op B  ends for the binary operator: the value
\* is printed as the result and as x, or the operator's RuntimeError is
\* reported, nothing is printed and x is what it was
EndsAsBinary(op, a, b) ==
  LET r == BinaryResult(op, a, b)
      x == Environment_get(interp.envs, Globals, Name("x"))
  IN /\ x.found
     /\ IF r.sig = "Normal"
        THEN /\ x.value = r.v
             /\ interp.out = <<stringify(r.v).text, stringify(r.v).text>>
             /\ runtimeErrors = <<>>
             /\ ~hadRuntimeError
        ELSE /\ x.value = a
             /\ interp.out = <<>>
             /\ runtimeErrors = <<r.msg>>
             /\ hadRuntimeError

\* C29: for every operator of + - * / and every pair of values,  x op= B
\* does what  x = x op B  does: the same value is stored and returned, or
\* the same RuntimeError (an operand that is no number, a division by zero)
\* is reported with x unchanged.
C29_CompoundIsBinaryThenAssign ==
  (input.family = "compound" /\ pc = "done") =>
    EndsAsBinary(input.args[2], Vals[input.args[3]], Vals[input.args[4]])

-----------------------------------------------------------------------------
\* executeBlock is running on top of the stack, after its entry
InExecuteBlock ==
  /\ pc = "interpret"
  /\ Len(interp.k) >= 1
  /\ Top(interp).fn = "executeBlock"
  /\ Top(interp).at >= 1

\* this step is the end of the executeBlock on top of the stack, by sig
LeavesExecuteBlock(sig) ==
  /\ InExecuteBlock
  /\ interp.sig = sig
  /\ Len(interp'.k) < Len(interp.k)

\* C30: whenever executeBlock ends, by running through its statements or
\* with Return, Break, Continue, a RuntimeError or another error on its way,
\* the current environment is the one that was current when it started; and
\* whenever no method of the interpreter is running, so after every
\* interpret(), also one a RuntimeError has ended, the current environment is
\* globals.
C30_EnvironmentRestored ==
  /\ [](Len(interp.k) = 0 => interp.environment = Globals)
  /\ [][(InExecuteBlock /\ Len(interp'.k) < Len(interp.k)) =>
          interp'.environment = Top(interp).tmp[2]]_vars

\* print undef; in the body of a function called from the top level has
\* ended the run with its RuntimeError: the call's environment was made, and
\* globals is the current one
C30_Witness ==
  /\ pc = "done"
  /\ input.family = "undef"
  /\ input.args = <<1, 3>>
  /\ hadRuntimeError
  /\ runtimeErrors = <<"Undefined variable 'undef'.">>
  /\ Len(interp.envs) >= 3
  /\ interp.environment = Globals

=============================================================================
